---- MODULE Spec2Model ----
(***************************************************************************)
(* A model of the walkingpad desktop controller.                           *)
(*                                                                         *)
(* The layers are modelled each with its own specification:                *)
(*                                                                         *)
(*   Spec     - one Session Driver from the moment Connect has returned:   *)
(*              the command processor, the Writer (writeLoop), the Poller  *)
(*              (askStatsLoop), the notification callback                  *)
(*              (onBufferReceive), Disconnect, and the app-side wrapper    *)
(*              that feeds the command channel and drains the update       *)
(*              channel.  The variable "variant" selects the pluggable     *)
(*              driver (internal/walkingpads/kingsmith.go) or the          *)
(*              monolithic legacy driver (walkingpad.go).                  *)
(*   SpecApp  - the Connection Supervisor of internal/app/app.go: the main *)
(*              loop of App.Init, attemptToConnect, the transport's        *)
(*              disconnect callback, App.Close and the Walkingpad wrapper. *)
(*   SpecSession - the walking session of a connected, Ready pad: the     *)
(*              tick, the click handlers, the stop and its delivery.       *)
(*   SpecStats - Walkingpad.processUpdates and GetStats at the grain of    *)
(*              their statements, with the mutex of the latest reading.    *)
(*   SpecLegacyApp - the supervisor of the monolithic legacy app with the  *)
(*              legacy driver.                                             *)
(*   SpecTeardown - a Ready session whose link is lost: the main loop and  *)
(*              the click handlers alongside the disconnect callback.      *)
(*   SpecAccum - the session with the additions of the tick and the        *)
(*              assignments of the Stop branch as steps of their own.      *)
(*                                                                         *)
(* Units: speeds are in 1/100 km/h, distances in 1/100 km, durations in    *)
(* ms.  A panic of any goroutine ends the whole process (Go semantics):    *)
(* "panicked" is set and no action is enabled any more.                    *)
(***************************************************************************)
EXTENDS Integers, Sequences, FiniteSets, TLC

\* ------------------------------------------------------------------ bounds

\* Capacity of the three buffered channels in the model.  The code uses 50
\* for each (updateChan, queue, cmdChan); the model scales it down.
ChanCap == 2
\* Number of events the environment of one driver produces in a run: intents
\* of the UI, ticks of the Poller's ticker, notifications of the transport and
\* calls of the legacy Disconnect.
MaxEvents == 2
\* Number of events the environment of the session produces in a run: clicks
\* on the menu entries and notifications of the transport.
MaxSessionEvents == 3

\* ------------------------------------------------------- program constants

WriteSpacing == 700
StartDelay == 2500
MaxSpeed == 600
KingsmithPadModeStandby == 2
KingsmithPadModeManual == 1
KingsmithPadModeAuto == 0

\* nil slice / zero value
NilBuf == << >>

\* ------------------------------------------------------------ frame codec

RECURSIVE SumBytes(_, _, _)
SumBytes(cmd, i, hi) == IF i > hi THEN 0 ELSE cmd[i] + SumBytes(cmd, i + 1, hi)

\* a checksum that sums the placeholder byte too
fixCrc_WithPlaceholder(cmd) ==
    IF Len(cmd) < 2 THEN cmd
    ELSE [cmd EXCEPT ![Len(cmd) - 1] = SumBytes(cmd, 2, Len(cmd) - 1) % 256]

\* fixCrc: bytes at Go indices 1..len-3 are summed modulo 256 into index len-2.
\* (TLA+ sequences are 1-based: indices 2..Len-2 into index Len-1.)
fixCrc(cmd) ==
    IF Len(cmd) < 2 THEN cmd
    ELSE [cmd EXCEPT ![Len(cmd) - 1] = SumBytes(cmd, 2, Len(cmd) - 2) % 256]

\* byte(speed * 10.0) for a speed given in 1/100 km/h
SpeedByte(speed) == (speed \div 10) % 256

ChangeModeFrame(mode) == <<247, 162, 2, mode, 255, 253>>
StartBeltFrame == <<247, 162, 4, 1, 255, 253>>
ChangeSpeedFrame(speed) == <<247, 162, 1, SpeedByte(speed), 255, 253>>
AskStatsFrame == <<247, 162, 0, 0, 162, 253>>

\* kingsmithCommand / walkingPadCommand, plus the ghost field seq: the ordinal of
\* the enqueue that produced the entry (0 for the zero value).
Command(timeout, buffer, seq) == [timeout |-> timeout, buffer |-> buffer, seq |-> seq]
ZeroCommand == Command(0, NilBuf, 0)

\* ---------------------------------------------------------- status decoder

\* KingsmithPadStatus; zero value
ZeroStatus == [Speed |-> 0, Mode |-> 0, Time |-> 0, WalkedKM |-> 0, Steps |-> 0]

\* a decoder that reads the 24-bit fields low byte first
readKingsmithStatusBuffer_LittleEndian(buf) ==
    [Speed    |-> buf[2] * 10,
     Mode     |-> buf[3],
     Time     |-> (buf[6] * 65536 + buf[5] * 256 + buf[4]) * 1000,
     WalkedKM |-> buf[9] * 65536 + buf[8] * 256 + buf[7],
     Steps    |-> buf[12] * 65536 + buf[11] * 256 + buf[10]]

\* readKingsmithStatusBuffer(buf) on the bytes after the 2-byte signature.
\* Go index k is TLA+ index k+1.
readKingsmithStatusBuffer(buf) ==
    [Speed    |-> buf[2] * 10,
     Mode     |-> buf[3],
     Time     |-> (buf[4] * 65536 + buf[5] * 256 + buf[6]) * 1000,
     WalkedKM |-> buf[7] * 65536 + buf[8] * 256 + buf[9],
     Steps    |-> buf[10] * 65536 + buf[11] * 256 + buf[12]]

\* buf[2:]
DropSignature(buf) == SubSeq(buf, 3, Len(buf))

\* A well-formed status notification: signature, belt state, speed, mode,
\* 3 bytes time, 3 bytes distance, 3 bytes steps.
StatusFrame(spd, mode, t, d, s) ==
    <<248, 162, 1, spd, mode, 0, 0, t, 0, 0, d, 0, 0, s>>

\* The notifications the transport delivers in the model.
NotifFrames ==
    { StatusFrame(0, KingsmithPadModeStandby, 0, 0, 0),
      StatusFrame(25, KingsmithPadModeManual, 10, 50, 7),
      <<248, 1>>,
      <<248, 162, 1, 25>> }

\* internal.UpdateStats; Timestamp 0 is the zero time.
ZeroStats == [Timestamp |-> 0, Speed |-> 0, Time |-> 0, WalkedKM |-> 0, Steps |-> 0]

\* The update the driver hands to the app for a decoded status.  The app-side
\* consumer (GetStats().Timestamp.IsZero()) needs the capture time in it.
UpdateStatsMsg(status) ==
    [Timestamp |-> 1, Speed |-> status.Speed, Time |-> status.Time,
     WalkedKM |-> status.WalkedKM, Steps |-> status.Steps]

\* ------------------------------------------------------------------ state

VARIABLES
    variant,          \* "kingsmith" (pluggable driver) or "legacy" (monolithic driver)
    cmdChan,          \* cmdChan / Walkingpad.padCommands: intents in flight
    cmdChanClosed,
    queue,            \* pad.queue: buffered channel of commands
    queueClosed,
    updateChan,       \* pad.updateChan / Walkingpad.padUpdates
    updateChanClosed,
    stopped,          \* pad.stopped
    cancelled,        \* ctx of writeLoop and askStatsLoop is done
    wg,               \* pad.wg counter
    released,         \* number of pad.device.Disconnect() calls
    LastStatus,       \* pad.LastStatus
    LastStatusTime,   \* pad.LastStatusTime: 0 is the zero time
    legacyMode,       \* legacy app.state.status.Mode (the supervisor's copy)
    lastStats,        \* Walkingpad.lastStats
    mx,               \* Walkingpad.mx: "free" or the goroutine that holds it
    update,           \* loop variable of processUpdates
    got,              \* return value of GetStats while it is being copied
    lastStatus,       \* lastStatus of the main loop: app.state.status before the tick
    pc,               \* position of every goroutine
    cur,              \* cur.cmds: intent being processed; cur.writer: dequeued command
    panicked,         \* a goroutine panicked: the process is gone
    \* history (ghost) variables
    enqLog,           \* every command ever enqueued on queue, in enqueue order
    enqBy,            \* the goroutine that enqueued it, per entry of enqLog
    nDeq,             \* number of commands the Writer has dequeued
    writeLog,         \* seq numbers of the transport writes, in write order
    writeErrs,        \* seq numbers of the writes for which the transport returned an error
    sinceWrite,       \* ms known to have elapsed since the last write (saturating)
    lastGap,          \* sinceWrite at the latest write that had a predecessor
    startFrom,        \* Len(enqLog) when the current/last Start began
    startMode,        \* mode read by the current/last Start
    startDone,        \* the last Start ran to completion
    nIntents, nPolls, nNotifs, nDiscCalls,
    writeAfterRelease \* a transport write happened after device.Disconnect()

drvVars == <<variant, cmdChan, cmdChanClosed, queue, queueClosed, updateChan,
             updateChanClosed, stopped, cancelled, wg, released, LastStatus,
             LastStatusTime,
             legacyMode, lastStats, mx, update, got, lastStatus, pc, cur, panicked, enqLog, enqBy, nDeq, writeLog,
             writeErrs,
             sinceWrite, lastGap, startFrom, startMode, startDone, nIntents,
             nPolls, nNotifs, nDiscCalls, writeAfterRelease>>

Variants == {"kingsmith", "legacy"}

\* internal.WalkingpadCommand values
CmdStart(speed) == [type |-> "CmdStart", Speed |-> speed]
CmdStop == [type |-> "CmdStop", Speed |-> 0]
CmdChangeSpeed(speed) == [type |-> "CmdChangeSpeed", Speed |-> speed]
NoCmd == [type |-> "none", Speed |-> 0]

\* app.TargetSpeed comes from the config file unvalidated (cmd/walkingpad/main.go:29)
TargetSpeeds == {250, 700}
\* NewDefaultConfig: TargetSpeed 2.5
DefaultTargetSpeed == 250
\* the speed menu offers 0.5 .. 6.0 km/h in steps of 0.5 (app.go:180)
MenuSpeeds == {600}

Intents == {CmdStart(s) : s \in TargetSpeeds} \cup {CmdStop}
             \cup {CmdChangeSpeed(s) : s \in MenuSpeeds}

Min(a, b) == IF a < b THEN a ELSE b

HasPayload(cmd) == cmd.buffer # NilBuf

\* ---------------------------------------------------- supervisor state

VARIABLES
    connState,        \* app.state.connState
    prevConnState,    \* history: connState before its latest assignment
    pad,              \* app.pad: "nil" or "pad"
    padCommandsNil,   \* wp.padCommands == nil
    wpwg,             \* Walkingpad.wg counter
    linkUp,           \* the transport link to the device is up
    linkLost,         \* history: the transport has reported a disconnect
    apc,              \* position of the supervisor, the callback and Close
    ret,              \* where disconnectConnectedPad returns to, per goroutine
    exited,           \* App.Close has returned: the process is gone
    started,          \* app.state.started
    status,           \* app.state.status
    startedAt,        \* app.state.startedAt (0 is the zero time)
    accum,            \* the six accumulators of app.state
    TargetSpeed,      \* app.TargetSpeed
    stopLog,          \* history: the latest call of onBeltStop
    nWpDisconnect,    \* history: calls of Walkingpad.Disconnect
    nCloseCmdChan     \* history: close(wp.padCommands) executions

appVars == <<connState, prevConnState, pad, padCommandsNil, wpwg, linkUp, linkLost,
             apc, ret, exited, started, status, startedAt, accum,
             TargetSpeed, stopLog, nWpDisconnect, nCloseCmdChan>>

vars == <<drvVars, appVars>>

\* groups of driver variables, for UNCHANGED
vCmdChan == <<cmdChan, cmdChanClosed>>
vQueue == <<queue, queueClosed, enqLog, enqBy>>
vUpdate == <<updateChan, updateChanClosed>>
vTeardown == <<stopped, cancelled, released>>
vStart == <<startFrom, startMode, startDone>>
vWrite == <<nDeq, writeLog, writeErrs, sinceWrite, lastGap, writeAfterRelease>>
vCount == <<nIntents, nPolls, nNotifs, nDiscCalls>>
vStatus == <<LastStatus, LastStatusTime, legacyMode, lastStats>>
vMutex == <<mx, update, got, lastStatus>>

\* The process is alive: nothing has panicked and main has not returned.
Alive == ~panicked /\ ~exited

\* The environment may produce one more event.
MoreEvents == nIntents + nPolls + nNotifs + nDiscCalls + Cardinality(writeErrs) < MaxEvents

\* ------------------------------------------------------- driver: enqueue

\* a send that puts the new entry at the head of the queue
SendQueue_Lifo(buffer, timeout) ==
    IF queueClosed
    THEN /\ panicked' = TRUE
         /\ UNCHANGED <<queue, enqLog>>
    ELSE /\ Len(queue) < ChanCap
         /\ queue' = <<Command(timeout, buffer, Len(enqLog) + 1)>> \o queue
         /\ enqLog' = Append(enqLog, Command(timeout, buffer, Len(enqLog) + 1))
         /\ UNCHANGED panicked

\* a send that never waits for room
SendQueue_Unbounded(buffer, timeout) ==
    IF queueClosed
    THEN /\ panicked' = TRUE
         /\ UNCHANGED <<queue, enqLog>>
    ELSE /\ queue' = Append(queue, Command(timeout, buffer, Len(enqLog) + 1))
         /\ enqLog' = Append(enqLog, Command(timeout, buffer, Len(enqLog) + 1))
         /\ UNCHANGED panicked

\* pad.queue <- kingsmithCommand{...} panics on a
\* closed channel, blocks (is not enabled) while the buffer is full.
SendQueue(buffer, timeout) ==
    IF queueClosed
    THEN /\ panicked' = TRUE
         /\ UNCHANGED <<queue, enqLog>>
    ELSE /\ Len(queue) < ChanCap
         /\ queue' = Append(queue, Command(timeout, buffer, Len(enqLog) + 1))
         /\ enqLog' = Append(enqLog, Command(timeout, buffer, Len(enqLog) + 1))
         /\ UNCHANGED panicked

\* pushCmd(cmd, timeout)
pushCmd(cmd, timeout) == SendQueue(fixCrc(cmd), timeout)

\* history: goroutine "by" is the one whose enqueue (if any) this step makes
EnqueuedBy(by) == enqBy' = IF enqLog' = enqLog THEN enqBy ELSE Append(enqBy, by)

ChangeMode(mode) == pushCmd(ChangeModeFrame(mode), 0)
StartBelt == pushCmd(StartBeltFrame, 0)
AskStats == pushCmd(AskStatsFrame, 0)
WaitCmd(timeout) == pushCmd(NilBuf, timeout)

\* ChangeSpeed(speed): panics outside [0,6] km/h
ValidSpeed(speed) == speed >= 0 /\ speed <= MaxSpeed
\* a speed change without the range check
ChangeSpeed_Unchecked(speed) == pushCmd(ChangeSpeedFrame(speed), 0)

ChangeSpeed(speed) ==
    IF ValidSpeed(speed)
    THEN pushCmd(ChangeSpeedFrame(speed), 0)
    ELSE /\ panicked' = TRUE
         /\ UNCHANGED <<queue, enqLog>>

\* ------------------------------------------- driver: command processing

\* The type switch of processCmds (and the branches of the legacy click
\* handler): where the goroutine goes for cmd, given the mode it reads.
Dispatch(cmd, mode) ==
    /\ cur' = [cur EXCEPT !.cmds = cmd]
    /\ IF cmd.type = "CmdStart"
       THEN /\ pc' = [pc EXCEPT !.cmds = IF mode = KingsmithPadModeStandby
                                         THEN "ChangeMode" ELSE "StartBelt"]
            /\ startFrom' = Len(enqLog)
            /\ startMode' = mode
            /\ startDone' = FALSE
       ELSE /\ pc' = [pc EXCEPT !.cmds = IF cmd.type = "CmdStop"
                                         THEN "StopBelt" ELSE "ChangeSpeed"]
            /\ startDone' = FALSE
            /\ UNCHANGED <<startFrom, startMode>>

\* for cmd := range cmdChan: receive the next intent
processCmdsRecv ==
    /\ Alive /\ variant = "kingsmith"
    /\ pc.cmds = "recv" /\ cmdChan # << >>
    /\ cmdChan' = Tail(cmdChan)
    /\ Dispatch(Head(cmdChan), LastStatus.Mode)
    /\ UNCHANGED <<vMutex, variant, cmdChanClosed, vQueue, vUpdate, vTeardown, wg, vStatus,
                   panicked, vWrite, vCount, appVars>>

\* the range loop ends when cmdChan is closed and drained; Disconnect follows
processCmdsClosed ==
    /\ Alive /\ variant = "kingsmith"
    /\ pc.cmds = "recv" /\ cmdChan = << >> /\ cmdChanClosed
    /\ pc' = [pc EXCEPT !.cmds = "Disconnect"]
    /\ UNCHANGED <<vMutex, variant, vCmdChan, vQueue, vUpdate, vTeardown, wg, vStatus, cur,
                   panicked, vStart, vWrite, vCount, appVars>>

\* a start sequence that waits before it starts the belt
StepAfter_Swapped(label) ==
    CASE label = "ChangeMode" -> "WaitCmd"
      [] label = "WaitCmd" -> "StartBelt"
      [] label = "StartBelt" -> "ChangeSpeed"
      [] OTHER -> "recv"

\* The order of the steps of one intent.
StepAfter(label) ==
    CASE label = "ChangeMode" -> "StartBelt"
      [] label = "StartBelt" -> "WaitCmd"
      [] label = "WaitCmd" -> "ChangeSpeed"
      [] OTHER -> "recv"

\* One enqueue of the intent being processed.
processCmdsStep ==
    /\ Alive
    /\ pc.cmds \in {"ChangeMode", "StartBelt", "WaitCmd", "ChangeSpeed", "StopBelt"}
    /\ CASE pc.cmds = "ChangeMode" -> ChangeMode(KingsmithPadModeManual)
         [] pc.cmds = "StartBelt" -> StartBelt
         [] pc.cmds = "WaitCmd" -> WaitCmd(StartDelay)
         [] pc.cmds = "ChangeSpeed" -> ChangeSpeed(cur.cmds.Speed)
         [] pc.cmds = "StopBelt" -> ChangeSpeed(0)
    /\ EnqueuedBy("cmds")
    /\ pc' = [pc EXCEPT !.cmds = StepAfter(pc.cmds)]
    /\ startDone' = IF cur.cmds.type = "CmdStart" /\ pc.cmds = "ChangeSpeed"
                    THEN ~panicked' ELSE startDone
    /\ UNCHANGED <<vMutex, variant, vCmdChan, queueClosed, vUpdate, vTeardown, wg, vStatus, cur,
                   startFrom, startMode, vWrite, vCount, appVars>>

\* Walkingpad.Send: wp.padCommands <- cmd
Send(cmd) ==
    IF cmdChanClosed
    THEN panicked' = TRUE /\ UNCHANGED cmdChan
    ELSE /\ Len(cmdChan) < ChanCap
         /\ cmdChan' = Append(cmdChan, cmd)
         /\ UNCHANGED panicked

\* An intent arriving from the UI on the driver's command channel.
AppSend ==
    /\ Alive /\ variant = "kingsmith"
    /\ MoreEvents
    /\ \E cmd \in Intents : Send(cmd)
    /\ nIntents' = nIntents + 1
    /\ UNCHANGED <<vMutex, variant, cmdChanClosed, vQueue, vUpdate, vTeardown, wg, vStatus, pc,
                   cur, vStart, vWrite, nPolls, nNotifs, nDiscCalls, appVars>>

\* Walkingpad.Disconnect, line 68: close(wp.padCommands).
CloseCmdChan ==
    IF cmdChanClosed
    THEN panicked' = TRUE /\ UNCHANGED cmdChanClosed
    ELSE cmdChanClosed' = TRUE /\ UNCHANGED panicked

\* The app closes the command channel of the driver (once).
AppCloseCmdChan ==
    /\ Alive /\ variant = "kingsmith"
    /\ ~cmdChanClosed
    /\ CloseCmdChan
    /\ UNCHANGED <<vMutex, variant, cmdChan, vQueue, vUpdate, vTeardown, wg, vStatus, pc, cur,
                   vStart, vWrite, vCount, appVars>>

\* Legacy: the Start/Pause and Stop click handler runs the pushes itself.
legacyClick ==
    /\ Alive /\ variant = "legacy"
    /\ pc.cmds = "recv"
    /\ MoreEvents
    /\ \E cmd \in {CmdStart(s) : s \in TargetSpeeds} \cup {CmdStop} :
          Dispatch(cmd, legacyMode)
    /\ nIntents' = nIntents + 1
    /\ UNCHANGED <<vMutex, variant, vCmdChan, vQueue, vUpdate, vTeardown, wg, vStatus,
                   panicked, vWrite, nPolls, nNotifs, nDiscCalls, appVars>>

\* Legacy: the speed-menu handler (its own goroutine) calls pad.ChangeSpeed.
legacySpeedClick ==
    /\ Alive /\ variant = "legacy"
    /\ MoreEvents
    /\ \E s \in MenuSpeeds : ChangeSpeed(s)
    /\ EnqueuedBy("speed")
    /\ nIntents' = nIntents + 1
    /\ UNCHANGED <<vMutex, variant, vCmdChan, queueClosed, vUpdate, vTeardown, wg, vStatus, pc,
                   cur, vStart, vWrite, nPolls, nNotifs, nDiscCalls, appVars>>

\* Legacy: the supervisor tick copies pad.LastStatus into app.state.status.
legacyCopyStatus ==
    /\ Alive /\ variant = "legacy"
    /\ legacyMode # LastStatus.Mode
    /\ legacyMode' = LastStatus.Mode
    /\ UNCHANGED <<vMutex, variant, vCmdChan, vQueue, vUpdate, vTeardown, wg, LastStatus,
                   LastStatusTime, lastStats, pc, cur, panicked, vStart, vWrite, vCount,
                   appVars>>

\* --------------------------------------------------- driver: Disconnect

\* The goroutine that runs pad.Disconnect(): processCmds in the pluggable
\* driver, a goroutine of the app in the legacy one.
Disconnector == IF variant = "kingsmith" THEN "cmds" ELSE "closer"

\* close(ch) panics when ch is closed already
CloseChan(closedNow) == IF closedNow THEN panicked' = TRUE ELSE UNCHANGED panicked

\* if pad.stopped { return }; pad.stopped = true
DisconnectEnter ==
    /\ Alive /\ pc[Disconnector] = "Disconnect"
    /\ IF stopped
       THEN pc' = [pc EXCEPT ![Disconnector] = "return"] /\ UNCHANGED stopped
       ELSE /\ stopped' = TRUE
            /\ pc' = [pc EXCEPT ![Disconnector] =
                        IF variant = "kingsmith" THEN "close_updateChan" ELSE "close_queue"]
    /\ UNCHANGED <<vMutex, variant, vCmdChan, vQueue, vUpdate, cancelled, released, wg, vStatus,
                   cur, panicked, vStart, vWrite, vCount, appVars>>

\* close(pad.updateChan)
DisconnectCloseUpdates ==
    /\ Alive /\ pc[Disconnector] = "close_updateChan"
    /\ CloseChan(updateChanClosed)
    /\ updateChanClosed' = TRUE
    /\ pc' = [pc EXCEPT ![Disconnector] = "close_queue"]
    /\ UNCHANGED <<vMutex, variant, vCmdChan, vQueue, updateChan, vTeardown, wg, vStatus, cur,
                   vStart, vWrite, vCount, appVars>>

\* close(pad.queue)
DisconnectCloseQueue ==
    /\ Alive /\ pc[Disconnector] = "close_queue"
    /\ CloseChan(queueClosed)
    /\ queueClosed' = TRUE
    /\ pc' = [pc EXCEPT ![Disconnector] = "cancel"]
    /\ UNCHANGED <<vMutex, variant, vCmdChan, queue, enqLog, enqBy, vUpdate, vTeardown, wg,
                   vStatus, cur, vStart, vWrite, vCount, appVars>>

\* pad.cancel()
DisconnectCancel ==
    /\ Alive /\ pc[Disconnector] = "cancel"
    /\ cancelled' = TRUE
    /\ pc' = [pc EXCEPT ![Disconnector] = "wg_Wait"]
    /\ UNCHANGED <<vMutex, variant, vCmdChan, vQueue, vUpdate, stopped, released, wg, vStatus,
                   cur, panicked, vStart, vWrite, vCount, appVars>>

\* a join that does not wait
WaitDone_Skip(counter) == TRUE

\* pad.wg.Wait() returns once the counter is zero
WaitDone(counter) == counter = 0

DisconnectWait ==
    /\ Alive /\ pc[Disconnector] = "wg_Wait"
    /\ WaitDone(wg)
    /\ pc' = [pc EXCEPT ![Disconnector] = "device_Disconnect"]
    /\ UNCHANGED <<vMutex, variant, vCmdChan, vQueue, vUpdate, vTeardown, wg, vStatus, cur,
                   panicked, vStart, vWrite, vCount, appVars>>

\* _ = pad.device.Disconnect()
DisconnectRelease ==
    /\ Alive /\ pc[Disconnector] = "device_Disconnect"
    /\ released' = released + 1
    /\ pc' = [pc EXCEPT ![Disconnector] = "return"]
    /\ UNCHANGED <<vMutex, variant, vCmdChan, vQueue, vUpdate, stopped, cancelled, wg, vStatus,
                   cur, panicked, vStart, vWrite, vCount, appVars>>

\* Disconnect returns.  In the pluggable driver the caller is processCmds,
\* which returns too: its deferred pad.wg.Done() runs.
DisconnectReturn ==
    /\ Alive /\ pc[Disconnector] = "return"
    /\ IF variant = "kingsmith"
       THEN wg' = wg - 1 /\ pc' = [pc EXCEPT !.cmds = "done"]
       ELSE UNCHANGED wg /\ pc' = [pc EXCEPT !.closer = "idle"]
    /\ UNCHANGED <<vMutex, variant, vCmdChan, vQueue, vUpdate, vTeardown, vStatus, cur,
                   panicked, vStart, vWrite, vCount, appVars>>

\* Legacy: a goroutine of the app calls pad.Disconnect()
legacyCallDisconnect ==
    /\ Alive /\ variant = "legacy"
    /\ pc.closer = "idle"
    /\ MoreEvents
    /\ nDiscCalls' = nDiscCalls + 1
    /\ pc' = [pc EXCEPT !.closer = "Disconnect"]
    /\ UNCHANGED <<vMutex, variant, vCmdChan, vQueue, vUpdate, vTeardown, wg, vStatus, cur,
                   panicked, vStart, vWrite, nIntents, nPolls, nNotifs, appVars>>

\* ------------------------------------------------------ driver: Writer

\* sleepCtx(ctx, timeout): the select returns when the timer fires, or at
\* once when ctx is done.  The result is the time known to have passed.
sleepCtx(timeout) == {timeout} \cup (IF cancelled THEN {0} ELSE {})

\* time.Sleep(timeout) of the legacy Writer
timeSleep(timeout) == {timeout}

Sleep(timeout) == IF variant = "kingsmith" THEN sleepCtx(timeout) ELSE timeSleep(timeout)

\* where the Writer goes after its current command's delay
AfterDelay(cmd) == IF HasPayload(cmd) THEN "write" ELSE "recv"

\* cmd := <-pad.queue (a buffered command is delivered even after close)
writeLoopRecv ==
    /\ Alive /\ pc.writer = "recv" /\ queue # << >>
    /\ queue' = Tail(queue)
    /\ nDeq' = nDeq + 1
    /\ cur' = [cur EXCEPT !.writer = Head(queue)]
    /\ pc' = [pc EXCEPT !.writer = IF Head(queue).timeout # 0 THEN "delay"
                                   ELSE AfterDelay(Head(queue))]
    /\ UNCHANGED <<vMutex, variant, vCmdChan, queueClosed, enqLog, enqBy, vUpdate, vTeardown, wg,
                   vStatus, panicked, vStart, writeLog, writeErrs, sinceWrite, lastGap,
                   writeAfterRelease, vCount, appVars>>

\* The loop ends: range over the closed, drained queue (kingsmith), or the
\* ctx.Done() case of the select (legacy).  The deferred pad.wg.Done() runs.
WriterMayExit ==
    IF variant = "kingsmith" THEN queue = << >> /\ queueClosed ELSE cancelled

writeLoopExit ==
    /\ Alive /\ pc.writer = "recv"
    /\ WriterMayExit
    /\ wg' = wg - 1
    /\ pc' = [pc EXCEPT !.writer = "done"]
    /\ UNCHANGED <<vMutex, variant, vCmdChan, vQueue, vUpdate, vTeardown, vStatus, cur,
                   panicked, vStart, vWrite, vCount, appVars>>

\* if cmd.timeout != 0 { sleep }
writeLoopDelay ==
    /\ Alive /\ pc.writer = "delay"
    /\ \E t \in Sleep(cur.writer.timeout) :
          sinceWrite' = Min(sinceWrite + t, WriteSpacing)
    /\ pc' = [pc EXCEPT !.writer = AfterDelay(cur.writer)]
    /\ UNCHANGED <<vMutex, variant, vCmdChan, vQueue, vUpdate, vTeardown, wg, vStatus, cur,
                   panicked, vStart, nDeq, writeLog, writeErrs, lastGap, writeAfterRelease,
                   vCount, appVars>>

\* the transport reports the write as done (err == nil) or as failed; a
\* failure is an event of the environment.  Failures are explored where the
\* driver runs on its own: the Writer treats both results alike, so the
\* specifications of the supervisor take the writes as done.
WriteWithoutResponse ==
    {TRUE} \cup (IF MoreEvents /\ apc.sup = "none" THEN {FALSE} ELSE {})

\* a Writer that tries a failed write again
AfterWrite_Retry(ok) == IF ok THEN "spacing" ELSE "write"

\* where the Writer goes after the write: the error is only logged
AfterWrite(ok) == "spacing"

\* pad.tx.WriteWithoutResponse(cmd.buffer), then the spacing sleep
writeLoopWrite ==
    /\ Alive /\ pc.writer = "write"
    /\ writeLog' = Append(writeLog, cur.writer.seq)
    /\ \E ok \in WriteWithoutResponse :
          /\ writeErrs' = IF ok THEN writeErrs ELSE writeErrs \cup {cur.writer.seq}
          /\ pc' = [pc EXCEPT !.writer = AfterWrite(ok)]
    /\ lastGap' = IF writeLog = << >> THEN lastGap ELSE sinceWrite
    /\ sinceWrite' = 0
    /\ writeAfterRelease' = (writeAfterRelease \/ released > 0)
    /\ UNCHANGED <<vMutex, variant, vCmdChan, vQueue, vUpdate, vTeardown, wg, vStatus, cur,
                   panicked, vStart, nDeq, vCount, appVars>>

\* the sleep after a write "to avoid overwhelming the pad"
writeLoopSpacing ==
    /\ Alive /\ pc.writer = "spacing"
    /\ \E t \in Sleep(WriteSpacing) :
          sinceWrite' = Min(sinceWrite + t, WriteSpacing)
    /\ pc' = [pc EXCEPT !.writer = "recv"]
    /\ UNCHANGED <<vMutex, variant, vCmdChan, vQueue, vUpdate, vTeardown, wg, vStatus, cur,
                   panicked, vStart, nDeq, writeLog, writeErrs, lastGap, writeAfterRelease,
                   vCount, appVars>>

\* ------------------------------------------------------ driver: Poller

\* pad.AskStats(), first at once and then after every tick
askStatsLoopAsk ==
    /\ Alive /\ pc.poller = "AskStats"
    /\ AskStats
    /\ EnqueuedBy("poller")
    /\ pc' = [pc EXCEPT !.poller = "select"]
    /\ UNCHANGED <<vMutex, variant, vCmdChan, queueClosed, vUpdate, vTeardown, wg, vStatus, cur,
                   vStart, vWrite, vCount, appVars>>

\* case <-ticket.C
askStatsLoopTick ==
    /\ Alive /\ pc.poller = "select"
    /\ MoreEvents
    /\ nPolls' = nPolls + 1
    /\ pc' = [pc EXCEPT !.poller = "AskStats"]
    /\ UNCHANGED <<vMutex, variant, vCmdChan, vQueue, vUpdate, vTeardown, wg, vStatus, cur,
                   panicked, vStart, vWrite, nIntents, nNotifs, nDiscCalls, appVars>>

\* case <-ctx.Done(): return (the deferred pad.wg.Done() runs)
askStatsLoopExit ==
    /\ Alive /\ pc.poller = "select"
    /\ cancelled
    /\ wg' = wg - 1
    /\ pc' = [pc EXCEPT !.poller = "done"]
    /\ UNCHANGED <<vMutex, variant, vCmdChan, vQueue, vUpdate, vTeardown, vStatus, cur,
                   panicked, vStart, vWrite, vCount, appVars>>

\* ------------------------------------------- driver: notifications

\* select { case pad.updateChan <- msg: default: }
TrySendUpdate(msg) ==
    IF updateChanClosed
    THEN panicked' = TRUE /\ UNCHANGED updateChan
    ELSE /\ updateChan' = IF Len(updateChan) < ChanCap
                          THEN Append(updateChan, msg) ELSE updateChan
         /\ UNCHANGED panicked

\* onBufferReceive(buf), called by the transport for every notification.
\* Indexing the payload past its end is a run-time panic.
onBufferReceive(buf) ==
    IF Len(buf) < 2 \/ ~(buf[1] = 248 /\ buf[2] = 162)
    THEN UNCHANGED <<LastStatus, LastStatusTime, updateChan, panicked>>
    ELSE IF Len(DropSignature(buf)) < 12
    THEN panicked' = TRUE /\ UNCHANGED <<LastStatus, LastStatusTime, updateChan>>
    ELSE /\ LastStatus' = readKingsmithStatusBuffer(DropSignature(buf))
         /\ LastStatusTime' = 1
         /\ IF variant = "kingsmith"
            THEN TrySendUpdate(UpdateStatsMsg(readKingsmithStatusBuffer(DropSignature(buf))))
            ELSE UNCHANGED <<updateChan, panicked>>

Notify ==
    /\ Alive /\ linkUp /\ released = 0
    /\ pc.writer # "none"
    /\ MoreEvents
    /\ \E buf \in NotifFrames : onBufferReceive(buf)
    /\ nNotifs' = nNotifs + 1
    /\ UNCHANGED <<vMutex, variant, vCmdChan, vQueue, updateChanClosed, vTeardown, wg,
                   legacyMode, lastStats, pc, cur, vStart, vWrite, nIntents, nPolls,
                   nDiscCalls, appVars>>

\* Walkingpad.processUpdates: for update := range wp.padUpdates
processUpdatesRecv ==
    /\ Alive /\ pc.updates = "recv" /\ updateChan # << >>
    /\ updateChan' = Tail(updateChan)
    /\ lastStats' = Head(updateChan)
    /\ UNCHANGED <<vMutex, variant, vCmdChan, vQueue, updateChanClosed, vTeardown, wg,
                   LastStatus, LastStatusTime, legacyMode, pc, cur, panicked, vStart,
                   vWrite, vCount, appVars>>

\* the range loop ends on the closed, drained channel; the goroutine returns
\* (the function has no wp.wg.Done())
processUpdatesExit ==
    /\ Alive /\ pc.updates = "recv" /\ updateChan = << >> /\ updateChanClosed
    /\ pc' = [pc EXCEPT !.updates = "done"]
    /\ UNCHANGED <<vMutex, variant, vCmdChan, vQueue, vUpdate, vTeardown, wg, vStatus, cur,
                   panicked, vStart, vWrite, vCount, appVars>>

\* ------------------------------------------------- driver specification

\* State of a driver right after Connect has returned.
DriverInit(v) ==
    /\ variant = v
    /\ cmdChan = << >> /\ cmdChanClosed = FALSE
    /\ queue = << >> /\ queueClosed = FALSE
    /\ updateChan = << >> /\ updateChanClosed = FALSE
    /\ stopped = FALSE /\ cancelled = FALSE
    /\ wg = IF v = "kingsmith" THEN 3 ELSE 2
    /\ released = 0
    /\ LastStatus = ZeroStatus /\ LastStatusTime = 0
    /\ legacyMode = 0
    /\ lastStats = ZeroStats
    /\ pc = [cmds |-> "recv", writer |-> "recv", poller |-> "AskStats",
             updates |-> IF v = "kingsmith" THEN "recv" ELSE "none",
             closer |-> IF v = "legacy" THEN "idle" ELSE "none"]
    /\ cur = [cmds |-> NoCmd, writer |-> ZeroCommand]
    /\ panicked = FALSE
    /\ enqLog = << >> /\ enqBy = << >> /\ nDeq = 0 /\ writeLog = << >>
    /\ writeErrs = {}
    /\ mx = "free" /\ update = ZeroStats /\ got = ZeroStats /\ lastStatus = ZeroStats
    /\ sinceWrite = 0 /\ lastGap = WriteSpacing
    /\ startFrom = 0 /\ startMode = 0 /\ startDone = FALSE
    /\ nIntents = 0 /\ nPolls = 0 /\ nNotifs = 0 /\ nDiscCalls = 0
    /\ writeAfterRelease = FALSE

ZeroAccum == [timeAccum |-> 0, stepsAccum |-> 0, kmAccum |-> 0,
              timeAccumTotal |-> 0, stepsAccumTotal |-> 0, kmAccumTotal |-> 0]

\* stopLog before any stop: n counts the calls of onBeltStop, by names the
\* caller, sent is what sendWebhook returned, accum and startedAt are the
\* values onBeltStop found
NoStop == [n |-> 0, by |-> "none", sent |-> FALSE, accum |-> ZeroAccum, startedAt |-> 0]

\* The supervisor is not part of the driver specification: its variables
\* stay as they are when Connect returns.
AppIdle ==
    /\ connState = "Connecting" /\ prevConnState = "Scanning"
    /\ pad = "nil" /\ padCommandsNil = FALSE /\ wpwg = 1
    /\ linkUp = TRUE /\ linkLost = FALSE
    /\ apc = [sup |-> "none", cb |-> "none", close |-> "none", ui |-> "none",
             speed |-> "none"]
    /\ ret = [sup |-> "none", cb |-> "none", close |-> "none"]
    /\ exited = FALSE
    /\ started = FALSE /\ status = ZeroStats /\ startedAt = 0
    /\ accum = ZeroAccum
    /\ TargetSpeed = DefaultTargetSpeed
    /\ stopLog = NoStop
    /\ nWpDisconnect = 0 /\ nCloseCmdChan = 0

Init == (\E v \in Variants : DriverInit(v)) /\ AppIdle

Next ==
    \/ AppSend
    \/ AppCloseCmdChan
    \/ processCmdsRecv
    \/ processCmdsClosed
    \/ processCmdsStep
    \/ legacyClick
    \/ legacySpeedClick
    \/ legacyCopyStatus
    \/ legacyCallDisconnect
    \/ DisconnectEnter
    \/ DisconnectCloseUpdates
    \/ DisconnectCloseQueue
    \/ DisconnectCancel
    \/ DisconnectWait
    \/ DisconnectRelease
    \/ DisconnectReturn
    \/ writeLoopRecv
    \/ writeLoopExit
    \/ writeLoopDelay
    \/ writeLoopWrite
    \/ writeLoopSpacing
    \/ askStatsLoopAsk
    \/ askStatsLoopTick
    \/ askStatsLoopExit
    \/ Notify

Spec == Init /\ [][Next]_vars

\* ===================================================== claims on the driver

\* what a command is on the wire: its delay and its frame
Wire(cmd) == [timeout |-> cmd.timeout, buffer |-> cmd.buffer]

RECURSIVE WireSeq(_)
WireSeq(cmds) == IF cmds = << >> THEN << >> ELSE <<Wire(Head(cmds))>> \o WireSeq(Tail(cmds))

\* The entries the command goroutine has enqueued since the latest Start began.
RECURSIVE PickBy(_, _, _)
PickBy(i, by, acc) ==
    IF i > Len(enqLog) THEN acc
    ELSE PickBy(i + 1, by, IF enqBy[i] = by THEN Append(acc, enqLog[i]) ELSE acc)

StartEntries == PickBy(startFrom + 1, "cmds", << >>)

\* The start sequence the claim describes.
StartSequence(mode, target) ==
    (IF mode = KingsmithPadModeStandby
     THEN << [timeout |-> 0, buffer |-> <<247, 162, 2, 1, 165, 253>>] >>
     ELSE << >>)
    \o << [timeout |-> 0, buffer |-> <<247, 162, 4, 1, 167, 253>>],
          [timeout |-> 2500, buffer |-> NilBuf],
          [timeout |-> 0, buffer |-> <<247, 162, 1, target \div 10, (163 + target \div 10) % 256, 253>>] >>

\* how many entries of its sequence a Start has enqueued when it stands at "label"
StartProgress(mode, label) ==
    LET base == IF mode = KingsmithPadModeStandby THEN 1 ELSE 0
    IN CASE label = "ChangeMode" -> 0
         [] label = "StartBelt" -> base
         [] label = "WaitCmd" -> base + 1
         [] label = "ChangeSpeed" -> base + 2

InStart == cur.cmds.type = "CmdStart"
             /\ pc.cmds \in {"ChangeMode", "StartBelt", "WaitCmd", "ChangeSpeed"}

QueueInEnqueueOrder ==
    \A i \in 1..Len(queue) : \A j \in 1..Len(queue) :
        i < j => queue[i].seq < queue[j].seq

\* C1: a Start processed while the mode read is Standby enqueues exactly the
\* four entries mode-change(Manual), start-belt, wait(2500 ms), change-speed(target),
\* in that order; with any other mode exactly the last three.  While the Start is
\* under way what it has enqueued is the matching prefix of that sequence, and
\* the entries stand in the queue in the order of their enqueue, whatever the
\* Poller and other producers enqueue in between.
C1_StartSequence ==
    /\ startDone =>
          /\ WireSeq(StartEntries) = StartSequence(startMode, cur.cmds.Speed)
          /\ Len(StartEntries) = IF startMode = KingsmithPadModeStandby THEN 4 ELSE 3
    /\ (InStart /\ ~panicked) =>
          WireSeq(StartEntries) =
             SubSeq(StartSequence(startMode, cur.cmds.Speed), 1,
                    StartProgress(startMode, pc.cmds))
    /\ QueueInEnqueueOrder

\* a Start in Standby has completed with a Poller request enqueued in between
C1_Witness ==
    /\ startDone /\ startMode = KingsmithPadModeStandby
    /\ \E i \in (startFrom + 1)..Len(enqLog) :
          /\ enqBy[i] = "poller"
          /\ \E j \in (startFrom + 1)..Len(enqLog) : j < i /\ enqBy[j] = "cmds"
          /\ \E j \in (startFrom + 1)..Len(enqLog) : j > i /\ enqBy[j] = "cmds"

RECURSIVE PayloadSeqs(_)
PayloadSeqs(cmds) ==
    IF cmds = << >> THEN << >>
    ELSE (IF HasPayload(Head(cmds)) THEN <<Head(cmds).seq>> ELSE << >>)
         \o PayloadSeqs(Tail(cmds))

\* the commands whose handling by the Writer is over
Handled == IF pc.writer \in {"delay", "write"} THEN nDeq - 1 ELSE nDeq

\* C2: the queue is FIFO and the Writer consumes every entry exactly once: what
\* is queued is exactly what was enqueued and not yet dequeued, in enqueue order,
\* and the transport writes are exactly the payload-carrying entries handled so
\* far, each once, in enqueue order.
C2_FifoExactlyOnce ==
    /\ nDeq <= Len(enqLog)
    /\ queue = SubSeq(enqLog, nDeq + 1, Len(enqLog))
    /\ \A i \in 1..Len(enqLog) : enqLog[i].seq = i
    /\ (nDeq > 0 /\ pc.writer \in {"delay", "write", "spacing"}) => cur.writer = enqLog[nDeq]
    /\ writeLog = PayloadSeqs(SubSeq(enqLog, 1, Handled))

\* two producers' frames have been written while the driver is open
C2_Witness ==
    /\ Len(writeLog) >= 2
    /\ ~queueClosed
    /\ \E i \in 1..Len(writeLog) : enqBy[writeLog[i]] = "poller"
    /\ \E i \in 1..Len(writeLog) : enqBy[writeLog[i]] = "cmds"

\* C3 (as claimed): at every transport write that has a predecessor, the full
\* inter-write spacing has elapsed since that predecessor.
C3_SpacingAlways == lastGap >= WriteSpacing

\* C4: the queue never holds more than its capacity and loses nothing; an
\* enqueue on a queue with room is enabled, and a producer standing at an enqueue
\* on a full (open) queue cannot proceed until an entry has been dequeued.
ProducerWaits == pc.cmds \in {"ChangeMode", "StartBelt", "WaitCmd", "ChangeSpeed", "StopBelt"}

C4_Backpressure ==
    /\ Len(queue) <= ChanCap
    /\ Len(enqLog) = nDeq + Len(queue)
    /\ (Alive /\ ProducerWaits /\ ~queueClosed) =>
          (ENABLED processCmdsStep <=>
              (Len(queue) < ChanCap \/ (pc.cmds = "ChangeSpeed" /\ ~ValidSpeed(cur.cmds.Speed))))
    /\ (Alive /\ pc.poller = "AskStats" /\ ~queueClosed) =>
          (ENABLED askStatsLoopAsk <=> Len(queue) < ChanCap)

\* a producer is blocked on the full queue
C4_Witness ==
    /\ Alive /\ ProducerWaits /\ ~queueClosed
    /\ Len(queue) = ChanCap
    /\ ~ENABLED processCmdsStep

\* C5: the link is released only when the Writer and the Poller have exited, and
\* no transport write follows the release.
C5_ReleaseAfterJoin ==
    /\ released > 0 => (pc.writer = "done" /\ pc.poller = "done")
    /\ ~writeAfterRelease

\* the link has been released after the Writer had written
C5_Witness == released > 0 /\ writeLog # << >>

\* C6 (as claimed): once the app has closed the command channel, teardown runs to
\* completion.  Stated on finite runs: as long as teardown is not complete, some
\* task of the driver can still take a step.
TeardownComplete ==
    /\ queueClosed /\ released > 0
    /\ pc.writer = "done" /\ pc.poller = "done" /\ pc.cmds = "done"

DriverStep ==
    \/ processCmdsRecv \/ processCmdsClosed \/ processCmdsStep
    \/ DisconnectEnter \/ DisconnectCloseUpdates \/ DisconnectCloseQueue
    \/ DisconnectCancel \/ DisconnectWait \/ DisconnectRelease \/ DisconnectReturn
    \/ writeLoopRecv \/ writeLoopExit \/ writeLoopDelay \/ writeLoopWrite
    \/ writeLoopSpacing \/ askStatsLoopAsk \/ askStatsLoopExit

C6_TeardownCompletes ==
    (variant = "kingsmith" /\ cmdChanClosed /\ Alive) =>
        (TeardownComplete \/ ENABLED DriverStep)

\* ============================================================ supervisor

Procs == {"sup", "cb", "close"}

vSession == <<started, status, startedAt, accum>>
vLink == <<linkUp, linkLost>>
vWrapper == <<padCommandsNil, wpwg, nWpDisconnect, nCloseCmdChan>>

\* app.state.connState = s (prevConnState remembers the state it changed from)
SetConnState(s) ==
    /\ connState' = s
    /\ prevConnState' = IF s = connState THEN prevConnState ELSE connState

\* Walkingpad.GetStats()
GetStats == lastStats

\* for { if app.state.connState == connectionStateDisconnected { ...
InitLoop ==
    /\ Alive /\ apc.sup = "loop"
    /\ apc' = [apc EXCEPT !.sup = IF connState = "Disconnected"
                                  THEN "atc_entry" ELSE "check_ready"]
    /\ UNCHANGED <<drvVars, connState, prevConnState, pad, vWrapper, vLink, ret, exited,
                   vSession, TargetSpeed, stopLog>>

\* attemptToConnect: if app.pad != nil { app.disconnectConnectedPad() }
attemptToConnectEntry ==
    /\ Alive /\ apc.sup = "atc_entry"
    /\ IF pad # "nil"
       THEN /\ apc' = [apc EXCEPT !.sup = "dcp_entry"]
            /\ ret' = [ret EXCEPT !.sup = "atc_scan"]
       ELSE /\ apc' = [apc EXCEPT !.sup = "atc_scan"]
            /\ UNCHANGED ret
    /\ UNCHANGED <<drvVars, connState, prevConnState, pad, vWrapper, vLink, exited,
                   vSession, TargetSpeed, stopLog>>

\* app.state.connState = connectionStateScanning
attemptToConnectScan ==
    /\ Alive /\ apc.sup = "atc_scan"
    /\ SetConnState("Scanning")
    /\ apc' = [apc EXCEPT !.sup = "atc_discover"]
    /\ UNCHANGED <<drvVars, pad, vWrapper, vLink, ret, exited, vSession, TargetSpeed, stopLog>>

\* DiscoverWalkingpadCandidates: an error, no device, or a device
attemptToConnectDiscover ==
    /\ Alive /\ apc.sup = "atc_discover"
    /\ \E outcome \in {"atc_defer", "atc_none", "atc_connecting"} :
          apc' = [apc EXCEPT !.sup = outcome]
    /\ UNCHANGED <<drvVars, connState, prevConnState, pad, vWrapper, vLink, ret, exited,
                   vSession, TargetSpeed, stopLog>>

\* if len(devices) == 0 { app.state.connState = connectionStateDisconnected; return nil }
attemptToConnectNone ==
    /\ Alive /\ apc.sup = "atc_none"
    /\ SetConnState("Disconnected")
    /\ apc' = [apc EXCEPT !.sup = "atc_defer"]
    /\ UNCHANGED <<drvVars, pad, vWrapper, vLink, ret, exited, vSession, TargetSpeed, stopLog>>

\* app.state.connState = connectionStateConnecting
attemptToConnectConnecting ==
    /\ Alive /\ apc.sup = "atc_connecting"
    /\ SetConnState("Connecting")
    /\ apc' = [apc EXCEPT !.sup = "atc_new"]
    /\ UNCHANGED <<drvVars, pad, vWrapper, vLink, ret, exited, vSession, TargetSpeed, stopLog>>

\* NewWalkingpadFromCandidate: candidate.Connect fails, or it builds the driver
\* (channels, pad.wg.Add(3), the three goroutines) and the wrapper
\* (wp.wg.Add(1), go wp.processUpdates()).
NewWalkingpadFromCandidate ==
    /\ Alive /\ apc.sup = "atc_new"
    /\ pc.writer = "none"
    /\ \/ /\ apc' = [apc EXCEPT !.sup = "atc_defer"]
          /\ UNCHANGED <<pc, wg, wpwg, linkUp>>
       \/ /\ pc' = [cmds |-> "recv", writer |-> "recv", poller |-> "AskStats",
                    updates |-> "recv", closer |-> "none"]
          /\ wg' = 3
          /\ wpwg' = 1
          /\ linkUp' = TRUE
          /\ apc' = [apc EXCEPT !.sup = "atc_assign"]
    /\ UNCHANGED <<vMutex, variant, vCmdChan, vQueue, vUpdate, vTeardown, vStatus, cur, panicked,
                   vStart, vWrite, vCount, connState, prevConnState, pad, padCommandsNil,
                   nWpDisconnect, nCloseCmdChan, linkLost, ret, exited, vSession, TargetSpeed, stopLog>>

\* app.pad, err = NewWalkingpadFromCandidate(...): the assignment of the result
attemptToConnectAssign ==
    /\ Alive /\ apc.sup = "atc_assign"
    /\ pad' = "pad"
    /\ apc' = [apc EXCEPT !.sup = "atc_connected"]
    /\ UNCHANGED <<drvVars, connState, prevConnState, vWrapper, vLink, ret, exited,
                   vSession, TargetSpeed, stopLog>>

\* app.state.connState = connectionStateConnected
attemptToConnectConnected ==
    /\ Alive /\ apc.sup = "atc_connected"
    /\ SetConnState("Connected")
    /\ apc' = [apc EXCEPT !.sup = "atc_defer"]
    /\ UNCHANGED <<drvVars, pad, vWrapper, vLink, ret, exited, vSession, TargetSpeed, stopLog>>

\* an attempt that returns without the deferred reset of the state
attemptToConnectDefer_NoReset ==
    /\ Alive /\ apc.sup = "atc_defer"
    /\ apc' = [apc EXCEPT !.sup = "after_atc"]
    /\ UNCHANGED <<drvVars, connState, prevConnState, pad, vWrapper, vLink, ret, exited,
                   vSession, TargetSpeed, stopLog>>

\* defer: if app.state.connState != connectionStateConnected { ... = Disconnected }
attemptToConnectDefer ==
    /\ Alive /\ apc.sup = "atc_defer"
    /\ IF connState # "Connected"
       THEN SetConnState("Disconnected")
       ELSE UNCHANGED <<connState, prevConnState>>
    /\ apc' = [apc EXCEPT !.sup = "after_atc"]
    /\ UNCHANGED <<drvVars, pad, vWrapper, vLink, ret, exited, vSession, TargetSpeed, stopLog>>

\* if still Disconnected: time.Sleep(5 s); continue
InitAfterAttempt ==
    /\ Alive /\ apc.sup = "after_atc"
    /\ apc' = [apc EXCEPT !.sup = IF connState = "Disconnected"
                                  THEN "loop" ELSE "check_ready"]
    /\ UNCHANGED <<drvVars, connState, prevConnState, pad, vWrapper, vLink, ret, exited,
                   vSession, TargetSpeed, stopLog>>

\* a check that does not ask for a reading
ReadyCondition_NoReading(state, stats) == state = "Connected"

\* app.state.connState == connectionStateConnected && !app.pad.GetStats().Timestamp.IsZero()
ReadyCondition(state, stats) == state = "Connected" /\ stats.Timestamp # 0

\* the condition of line 95 is evaluated (app.pad is dereferenced once the
\* state is seen to be Connected)
InitCheckReady ==
    /\ Alive /\ apc.sup = "check_ready"
    /\ IF connState = "Connected" /\ pad = "nil"
       THEN panicked' = TRUE /\ UNCHANGED apc
       ELSE /\ apc' = [apc EXCEPT !.sup = IF ReadyCondition(connState, GetStats)
                                         THEN "set_ready" ELSE "tick"]
            /\ UNCHANGED panicked
    /\ UNCHANGED <<vMutex, variant, vCmdChan, vQueue, vUpdate, vTeardown, wg, vStatus, pc, cur,
                   vStart, vWrite, vCount, connState, prevConnState, pad, vWrapper,
                   vLink, ret, exited, vSession, TargetSpeed, stopLog>>

\* app.state.connState = connectionStateReady
InitSetReady ==
    /\ Alive /\ apc.sup = "set_ready"
    /\ SetConnState("Ready")
    /\ apc' = [apc EXCEPT !.sup = "tick"]
    /\ UNCHANGED <<drvVars, pad, vWrapper, vLink, ret, exited, vSession, TargetSpeed, stopLog>>

\* the session part of app.state, as one value
Session == [started |-> started, startedAt |-> startedAt, accum |-> accum,
            stopLog |-> stopLog]

\* app.onBeltStart(); time.Now() is a non-zero time
onBeltStart(st) == [st EXCEPT !.started = TRUE, !.startedAt = 1]

\* a stop that resets the lifetime accumulators with the since-start ones
onBeltStop_ResetTotals(st, sent) ==
    IF sent
    THEN [st EXCEPT !.started = FALSE, !.startedAt = 0, !.accum = ZeroAccum]
    ELSE [st EXCEPT !.started = FALSE]

\* app.onBeltStop(); sent is what sendWebhook returned
onBeltStop(st, sent) ==
    IF sent
    THEN [st EXCEPT !.started = FALSE, !.startedAt = 0,
                    !.accum.timeAccum = 0, !.accum.stepsAccum = 0, !.accum.kmAccum = 0]
    ELSE [st EXCEPT !.started = FALSE]

\* onBeltStop called by "by", with its call recorded in stopLog
AccountStop(st, sent, by) ==
    [onBeltStop(st, sent) EXCEPT !.stopLog = [n |-> st.stopLog.n + 1, by |-> by,
                                               sent |-> sent, accum |-> st.accum,
                                               startedAt |-> st.startedAt]]

\* an accumulation that guards every field by its own delta
Accumulate_PerField(st, old, new) ==
    LET timeDiff == IF new.Time >= old.Time THEN new.Time - old.Time ELSE 0
        stepsDiff == IF new.Steps >= old.Steps THEN new.Steps - old.Steps ELSE 0
        kmDiff == IF new.WalkedKM >= old.WalkedKM THEN new.WalkedKM - old.WalkedKM ELSE 0
    IN IF st.started
       THEN [st EXCEPT !.accum = [timeAccum |-> @.timeAccum + timeDiff,
                                  stepsAccum |-> @.stepsAccum + stepsDiff,
                                  kmAccum |-> @.kmAccum + kmDiff,
                                  timeAccumTotal |-> @.timeAccumTotal + timeDiff,
                                  stepsAccumTotal |-> @.stepsAccumTotal + stepsDiff,
                                  kmAccumTotal |-> @.kmAccumTotal + kmDiff]]
       ELSE st

\* an accumulation that does not look at the started flag
Accumulate_IgnoreStarted(st, old, new) ==
    LET timeDiff == new.Time - old.Time
        stepsDiff == new.Steps - old.Steps
        kmDiff == new.WalkedKM - old.WalkedKM
    IN IF timeDiff >= 0 /\ stepsDiff >= 0 /\ kmDiff >= 0
       THEN [st EXCEPT !.accum = [timeAccum |-> @.timeAccum + timeDiff,
                                  stepsAccum |-> @.stepsAccum + stepsDiff,
                                  kmAccum |-> @.kmAccum + kmDiff,
                                  timeAccumTotal |-> @.timeAccumTotal + timeDiff,
                                  stepsAccumTotal |-> @.stepsAccumTotal + stepsDiff,
                                  kmAccumTotal |-> @.kmAccumTotal + kmDiff]]
       ELSE st

\* "increment difference to accumulate until stopped"
Accumulate(st, old, new) ==
    LET timeDiff == new.Time - old.Time
        stepsDiff == new.Steps - old.Steps
        kmDiff == new.WalkedKM - old.WalkedKM
    IN IF st.started /\ timeDiff >= 0 /\ stepsDiff >= 0 /\ kmDiff >= 0
       THEN [st EXCEPT !.accum = [timeAccum |-> @.timeAccum + timeDiff,
                                  stepsAccum |-> @.stepsAccum + stepsDiff,
                                  kmAccum |-> @.kmAccum + kmDiff,
                                  timeAccumTotal |-> @.timeAccumTotal + timeDiff,
                                  stepsAccumTotal |-> @.stepsAccumTotal + stepsDiff,
                                  kmAccumTotal |-> @.kmAccumTotal + kmDiff]]
       ELSE st

\* a tick that takes every decrease of the speed for a stop
ReadyTick_AnyDecrease(st, old, new, sent) ==
    LET tempoDiff == new.Speed - old.Speed
        st1 == IF ~st.started /\ tempoDiff > 0 THEN onBeltStart(st) ELSE st
        st2 == IF st1.started /\ tempoDiff < 0
               THEN AccountStop(st1, sent, "tick") ELSE st1
    IN Accumulate(st2, old, new)

\* the Ready branch of the tick, for the reading "new"
ReadyTick(st, old, new, sent) ==
    LET tempoDiff == new.Speed - old.Speed
        st1 == IF ~st.started /\ tempoDiff > 0 THEN onBeltStart(st) ELSE st
        st2 == IF st1.started /\ tempoDiff < 0 /\ new.Speed = 0
               THEN AccountStop(st1, sent, "tick") ELSE st1
    IN Accumulate(st2, old, new)

\* a tick that takes the Ready branch as soon as the pad is connected
IsReady_OrConnected(state) == state \in {"Ready", "Connected"}

\* if app.state.connState == connectionStateReady { ... } else { ... }
IsReady(state) == state = "Ready"

\* The rest of one iteration of the main loop: the Ready branch or the reset,
\* updateUI, time.Sleep(500 ms).
InitTick ==
    /\ Alive /\ apc.sup = "tick"
    /\ IF IsReady(connState)
       THEN IF pad = "nil"
            THEN panicked' = TRUE /\ UNCHANGED <<vSession, stopLog>>
            ELSE /\ \E sent \in BOOLEAN :
                      LET st == ReadyTick(Session, status, GetStats, sent)
                      IN /\ started' = st.started
                         /\ startedAt' = st.startedAt
                         /\ accum' = st.accum
                         /\ stopLog' = st.stopLog
                 /\ status' = GetStats
                 /\ UNCHANGED panicked
       ELSE /\ started' = FALSE
            /\ status' = ZeroStats
            /\ UNCHANGED <<startedAt, accum, stopLog, panicked>>
    /\ apc' = [apc EXCEPT !.sup = "loop"]
    /\ UNCHANGED <<vMutex, variant, vCmdChan, vQueue, vUpdate, vTeardown, wg, vStatus, pc, cur,
                   vStart, vWrite, vCount, connState, prevConnState, pad, vWrapper,
                   vLink, ret, exited, TargetSpeed>>

\* One step of disconnectConnectedPad, and of the Walkingpad.Disconnect it
\* calls, by goroutine p.
disconnectConnectedPad(p) ==
    /\ Alive
    /\ apc[p] \in {"dcp_entry", "wpd_check", "wpd_close", "wpd_wait", "wpd_nil",
                   "dcp_clear", "dcp_state"}
    /\ CASE apc[p] = "dcp_entry" ->
              \* if app.pad != nil { app.pad.Disconnect() ...
              /\ apc' = [apc EXCEPT ![p] = IF pad # "nil" THEN "wpd_check" ELSE "dcp_state"]
              /\ nWpDisconnect' = IF pad # "nil" THEN nWpDisconnect + 1 ELSE nWpDisconnect
              /\ UNCHANGED <<cmdChanClosed, panicked, nCloseCmdChan, padCommandsNil, pad,
                             connState, prevConnState>>
         [] apc[p] = "wpd_check" ->
              \* if wp.padCommands == nil { return }
              /\ apc' = [apc EXCEPT ![p] = IF padCommandsNil THEN "dcp_clear" ELSE "wpd_close"]
              /\ UNCHANGED <<cmdChanClosed, panicked, nCloseCmdChan, padCommandsNil, pad,
                             connState, prevConnState, nWpDisconnect>>
         [] apc[p] = "wpd_close" ->
              \* close(wp.padCommands)
              /\ CloseCmdChan
              /\ nCloseCmdChan' = nCloseCmdChan + 1
              /\ apc' = [apc EXCEPT ![p] = "wpd_wait"]
              /\ UNCHANGED <<padCommandsNil, pad, connState, prevConnState, nWpDisconnect>>
         [] apc[p] = "wpd_wait" ->
              \* wp.wg.Wait()
              /\ WaitDone(wpwg)
              /\ apc' = [apc EXCEPT ![p] = "wpd_nil"]
              /\ UNCHANGED <<cmdChanClosed, panicked, nCloseCmdChan, padCommandsNil, pad,
                             connState, prevConnState, nWpDisconnect>>
         [] apc[p] = "wpd_nil" ->
              \* wp.padCommands = nil
              /\ padCommandsNil' = TRUE
              /\ apc' = [apc EXCEPT ![p] = "dcp_clear"]
              /\ UNCHANGED <<cmdChanClosed, panicked, nCloseCmdChan, pad, connState,
                             prevConnState, nWpDisconnect>>
         [] apc[p] = "dcp_clear" ->
              \* app.pad = nil
              /\ pad' = "nil"
              /\ apc' = [apc EXCEPT ![p] = "dcp_state"]
              /\ UNCHANGED <<cmdChanClosed, panicked, nCloseCmdChan, padCommandsNil,
                             connState, prevConnState, nWpDisconnect>>
         [] apc[p] = "dcp_state" ->
              \* app.state.connState = connectionStateDisconnected; app.updateUI()
              /\ SetConnState("Disconnected")
              /\ apc' = [apc EXCEPT ![p] = ret[p]]
              /\ UNCHANGED <<cmdChanClosed, panicked, nCloseCmdChan, padCommandsNil, pad,
                             nWpDisconnect>>
    /\ UNCHANGED <<vMutex, variant, cmdChan, vQueue, vUpdate, vTeardown, wg, vStatus, pc, cur,
                   vStart, vWrite, vCount, wpwg, vLink, ret, exited, vSession, TargetSpeed, stopLog>>

\* The transport loses the link to the connected device and calls the connect
\* handler with connected = false.
LinkLoss ==
    /\ Alive /\ linkUp /\ apc.cb = "idle"
    /\ linkUp' = FALSE
    /\ linkLost' = TRUE
    /\ apc' = [apc EXCEPT !.cb = "called"]
    /\ UNCHANGED <<drvVars, connState, prevConnState, pad, vWrapper, ret, exited,
                   vSession, TargetSpeed, stopLog>>

\* onConnectionStateChange: if app.pad != nil && ... && !connected { disconnectConnectedPad() }
onConnectionStateChange ==
    /\ Alive /\ apc.cb = "called"
    /\ apc' = [apc EXCEPT !.cb = IF pad # "nil" THEN "dcp_entry" ELSE "idle"]
    /\ ret' = [ret EXCEPT !.cb = "idle"]
    /\ UNCHANGED <<drvVars, connState, prevConnState, pad, vWrapper, vLink, exited,
                   vSession, TargetSpeed, stopLog>>

\* Quit: the tray's event loop calls App.Close, which calls disconnectConnectedPad
Close ==
    /\ Alive /\ apc.close = "idle"
    /\ apc' = [apc EXCEPT !.close = "dcp_entry"]
    /\ ret' = [ret EXCEPT !.close = "return"]
    /\ UNCHANGED <<drvVars, connState, prevConnState, pad, vWrapper, vLink, exited,
                   vSession, TargetSpeed, stopLog>>

\* App.Close has returned: systray.Run returns and main with it
CloseReturn ==
    /\ Alive /\ apc.close = "return"
    /\ exited' = TRUE
    /\ apc' = [apc EXCEPT !.close = "done"]
    /\ UNCHANGED <<drvVars, connState, prevConnState, pad, vWrapper, vLink, ret,
                   vSession, TargetSpeed, stopLog>>

\* One step of the teardown the driver runs when its command channel is
\* closed: processCmds leaves its loop and runs pad.Disconnect().
KingsmithPadDisconnect ==
    /\ pc.cmds \in {"Disconnect", "close_updateChan", "close_queue", "cancel", "wg_Wait",
                    "device_Disconnect", "return"}
    /\ CASE pc.cmds = "Disconnect" -> DisconnectEnter
         [] pc.cmds = "close_updateChan" -> DisconnectCloseUpdates
         [] pc.cmds = "close_queue" -> DisconnectCloseQueue
         [] pc.cmds = "cancel" -> DisconnectCancel
         [] pc.cmds = "wg_Wait" -> DisconnectWait
         [] pc.cmds = "device_Disconnect" -> DisconnectRelease
         [] pc.cmds = "return" -> DisconnectReturn

\* The app as main starts it: nothing connected, the main loop about to run.
InitApp ==
    /\ variant = "kingsmith"
    /\ cmdChan = << >> /\ cmdChanClosed = FALSE
    /\ queue = << >> /\ queueClosed = FALSE
    /\ updateChan = << >> /\ updateChanClosed = FALSE
    /\ stopped = FALSE /\ cancelled = FALSE
    /\ wg = 0 /\ released = 0
    /\ LastStatus = ZeroStatus /\ LastStatusTime = 0 /\ legacyMode = 0
    /\ lastStats = ZeroStats
    /\ pc = [cmds |-> "none", writer |-> "none", poller |-> "none", updates |-> "none",
             closer |-> "none"]
    /\ cur = [cmds |-> NoCmd, writer |-> ZeroCommand]
    /\ panicked = FALSE
    /\ enqLog = << >> /\ enqBy = << >> /\ nDeq = 0 /\ writeLog = << >>
    /\ writeErrs = {}
    /\ mx = "free" /\ update = ZeroStats /\ got = ZeroStats /\ lastStatus = ZeroStats
    /\ sinceWrite = 0 /\ lastGap = WriteSpacing
    /\ startFrom = 0 /\ startMode = 0 /\ startDone = FALSE
    /\ nIntents = 0 /\ nPolls = 0 /\ nNotifs = 0 /\ nDiscCalls = 0
    /\ writeAfterRelease = FALSE
    /\ connState = "Disconnected" /\ prevConnState = "Disconnected"
    /\ pad = "nil" /\ padCommandsNil = FALSE /\ wpwg = 0
    /\ linkUp = FALSE /\ linkLost = FALSE
    /\ apc = [sup |-> "loop", cb |-> "idle", close |-> "idle", ui |-> "none",
             speed |-> "none"]
    /\ ret = [sup |-> "none", cb |-> "none", close |-> "none"]
    /\ exited = FALSE
    /\ started = FALSE /\ status = ZeroStats /\ startedAt = 0
    /\ accum = ZeroAccum
    /\ TargetSpeed = DefaultTargetSpeed
    /\ stopLog = NoStop
    /\ nWpDisconnect = 0 /\ nCloseCmdChan = 0

\* The UI handlers are not part of this specification: no intent is sent, so
\* the queue holds status requests only and the Writer never has a delay to serve.
NextApp ==
    \/ InitLoop
    \/ attemptToConnectEntry
    \/ attemptToConnectScan
    \/ attemptToConnectDiscover
    \/ attemptToConnectNone
    \/ attemptToConnectConnecting
    \/ NewWalkingpadFromCandidate
    \/ attemptToConnectAssign
    \/ attemptToConnectConnected
    \/ attemptToConnectDefer
    \/ InitAfterAttempt
    \/ InitCheckReady
    \/ InitSetReady
    \/ InitTick
    \/ \E p \in Procs : disconnectConnectedPad(p)
    \/ LinkLoss
    \/ onConnectionStateChange
    \/ Close
    \/ CloseReturn
    \/ processCmdsClosed
    \/ KingsmithPadDisconnect
    \/ writeLoopRecv
    \/ writeLoopExit
    \/ writeLoopWrite
    \/ writeLoopSpacing
    \/ askStatsLoopAsk
    \/ askStatsLoopTick
    \/ askStatsLoopExit
    \/ Notify
    \/ processUpdatesRecv
    \/ processUpdatesExit

SpecApp == InitApp /\ [][NextApp]_vars

\* ================================================= claims on the supervisor

\* C7 (as claimed): a second Disconnect on the same driver closes no channel
\* again and raises no panic: the command channel is closed at most once.
C7_SecondDisconnectNoOp ==
    /\ nCloseCmdChan <= 1
    /\ nWpDisconnect >= 2 => ~panicked

\* the steps that can bring a teardown begun by the disconnect callback forward
TeardownProgress ==
    \/ disconnectConnectedPad("cb")
    \/ processCmdsClosed
    \/ KingsmithPadDisconnect
    \/ writeLoopRecv \/ writeLoopExit \/ writeLoopWrite \/ writeLoopSpacing
    \/ askStatsLoopAsk \/ askStatsLoopExit
    \/ processUpdatesRecv \/ processUpdatesExit

\* C8 (as claimed): after the transport has reported the loss of the connected
\* device, the supervisor gets to Disconnected with no driver attached.  Stated
\* on finite runs: while the callback's teardown has not returned, some step of
\* that teardown can still be taken.
C8_LinkLossRecovers ==
    (Alive /\ linkLost /\ apc.cb \notin {"idle", "called"}) => ENABLED TeardownProgress

ChainEdges == {<<"Disconnected", "Scanning">>, <<"Scanning", "Connecting">>,
               <<"Connecting", "Connected">>, <<"Connected", "Ready">>}

\* C9 (as claimed): the connection state changes only along Disconnected ->
\* Scanning -> Connecting -> Connected -> Ready, or from any state to Disconnected.
C9_StateChain ==
    connState # prevConnState =>
        (connState = "Disconnected" \/ <<prevConnState, connState>> \in ChainEdges)

SessionFrames == {StatusFrame(15, KingsmithPadModeManual, 10, 50, 7),
                  StatusFrame(8, KingsmithPadModeManual, 20, 60, 9),
                  StatusFrame(15, KingsmithPadModeManual, 20, 10, 9),
                  StatusFrame(0, KingsmithPadModeManual, 30, 70, 12)}

MoreSessionEvents == nIntents + nNotifs < MaxSessionEvents

\* the transport delivers a status notification to onBufferReceive
NotifySession ==
    /\ Alive /\ linkUp /\ released = 0
    /\ MoreSessionEvents
    /\ \E buf \in SessionFrames : onBufferReceive(buf)
    /\ nNotifs' = nNotifs + 1
    /\ UNCHANGED <<vMutex, variant, vCmdChan, vQueue, updateChanClosed, vTeardown, wg,
                   legacyMode, lastStats, pc, cur, vStart, vWrite, nIntents, nPolls,
                   nDiscCalls, appVars>>

\* app.pad.Send(cmd): app.pad is dereferenced
PadSend(cmd) ==
    IF pad = "nil" THEN panicked' = TRUE /\ UNCHANGED cmdChan ELSE Send(cmd)

\* case <-app.mStartPause.ClickedCh: the entry is enabled in state Ready only.
\* Not started: app.onBeltStart(), then the Send; started: the Send comes first.
StartPauseClick ==
    /\ Alive /\ apc.ui = "idle"
    /\ MoreSessionEvents
    /\ connState = "Ready"
    /\ nIntents' = nIntents + 1
    /\ IF ~started
       THEN /\ started' = onBeltStart(Session).started
            /\ startedAt' = onBeltStart(Session).startedAt
            /\ apc' = [apc EXCEPT !.ui = "start_send"]
       ELSE /\ apc' = [apc EXCEPT !.ui = "pause_send"]
            /\ UNCHANGED <<started, startedAt>>
    /\ UNCHANGED <<vMutex, variant, vCmdChan, vQueue, vUpdate, vTeardown, wg, vStatus, pc, cur,
                   panicked, vStart, vWrite, nPolls, nNotifs, nDiscCalls, connState,
                   prevConnState, pad, vWrapper, vLink, ret, exited, status, accum,
                   TargetSpeed, stopLog>>

\* case <-app.mStop.ClickedCh: the entry is enabled while started or while
\* there are totals to reset. With the session not started the handler has
\* nothing to call and goes straight to the reset of lines 162-168.
StopClick ==
    /\ Alive /\ apc.ui = "idle"
    /\ MoreSessionEvents
    /\ started \/ accum.timeAccumTotal # 0
    /\ nIntents' = nIntents + 1
    /\ IF started
       THEN /\ apc' = [apc EXCEPT !.ui = "stop_send"]
            /\ UNCHANGED <<startedAt, accum>>
       ELSE /\ startedAt' = 0
            /\ accum' = ZeroAccum
            /\ UNCHANGED apc
    /\ UNCHANGED <<vMutex, variant, vCmdChan, vQueue, vUpdate, vTeardown, wg, vStatus, pc, cur,
                   panicked, vStart, vWrite, nPolls, nNotifs, nDiscCalls, connState,
                   prevConnState, pad, vWrapper, vLink, ret, exited, started, status,
                   TargetSpeed, stopLog>>

\* the command a click handler sends from where it stands
ClickCommand(label) == IF label = "start_send" THEN CmdStart(TargetSpeed) ELSE CmdStop

\* where it goes after the send (updateUI ends the Start branch)
AfterClickSend(label) ==
    CASE label = "start_send" -> "idle"
      [] label = "pause_send" -> "pause_stop"
      [] label = "stop_send" -> "stop_stop"

\* app.pad.Send(&internal.CmdStart{Speed: app.TargetSpeed}) / app.pad.Send(&internal.CmdStop{})
ClickSend ==
    /\ Alive /\ apc.ui \in {"start_send", "pause_send", "stop_send"}
    /\ PadSend(ClickCommand(apc.ui))
    /\ apc' = [apc EXCEPT !.ui = AfterClickSend(apc.ui)]
    /\ UNCHANGED <<vMutex, variant, cmdChanClosed, vQueue, vUpdate, vTeardown, wg, vStatus, pc,
                   cur, vStart, vWrite, vCount, connState, prevConnState, pad, vWrapper,
                   vLink, ret, exited, vSession, TargetSpeed, stopLog>>

\* app.onBeltStop() of the Pause and of the Stop branch
ClickBeltStop ==
    /\ Alive /\ apc.ui \in {"pause_stop", "stop_stop"}
    /\ \E sent \in BOOLEAN :
          LET st == AccountStop(Session, sent, IF apc.ui = "pause_stop" THEN "pause" ELSE "stop")
          IN /\ started' = st.started
             /\ startedAt' = st.startedAt
             /\ accum' = st.accum
             /\ stopLog' = st.stopLog
    /\ apc' = [apc EXCEPT !.ui = IF apc.ui = "pause_stop" THEN "idle" ELSE "stop_reset"]
    /\ UNCHANGED <<drvVars, connState, prevConnState, pad, vWrapper, vLink, ret, exited,
                   status, TargetSpeed>>

\* the Stop branch after its onBeltStop: startedAt and the six accumulators
\* are set to zero
StopReset ==
    /\ Alive /\ apc.ui = "stop_reset"
    /\ startedAt' = 0
    /\ accum' = ZeroAccum
    /\ apc' = [apc EXCEPT !.ui = "idle"]
    /\ UNCHANGED <<drvVars, connState, prevConnState, pad, vWrapper, vLink, ret, exited,
                   started, status, TargetSpeed, stopLog>>

\* a click on an entry of the speed menu: app.TargetSpeed = selectedSpeed
SpeedClick ==
    /\ Alive /\ apc.speed = "idle"
    /\ MoreSessionEvents
    /\ \E selectedSpeed \in MenuSpeeds : TargetSpeed' = selectedSpeed
    /\ nIntents' = nIntents + 1
    /\ apc' = [apc EXCEPT !.speed = IF connState = "Ready" /\ started
                                    THEN "send" ELSE "idle"]
    /\ UNCHANGED <<vMutex, variant, vCmdChan, vQueue, vUpdate, vTeardown, wg, vStatus, pc, cur,
                   panicked, vStart, vWrite, nPolls, nNotifs, nDiscCalls, connState,
                   prevConnState, pad, vWrapper, vLink, ret, exited, vSession, stopLog>>

\* app.pad.Send(&internal.CmdChangeSpeed{Speed: selectedSpeed})
SpeedSend ==
    /\ Alive /\ apc.speed = "send"
    /\ PadSend(CmdChangeSpeed(TargetSpeed))
    /\ apc' = [apc EXCEPT !.speed = "idle"]
    /\ UNCHANGED <<vMutex, variant, cmdChanClosed, vQueue, vUpdate, vTeardown, wg, vStatus, pc,
                   cur, vStart, vWrite, vCount, connState, prevConnState, pad, vWrapper,
                   vLink, ret, exited, vSession, TargetSpeed, stopLog>>

\* The first status request of the Poller, as the Writer has dequeued it.
FirstAsk == Command(0, fixCrc(AskStatsFrame), 1)

\* attemptToConnect has returned with a driver attached, and the driver has
\* written its first status request (the device answers a request with a
\* status notification).  The target speed is the one of the config file.
InitSession ==
    /\ variant = "kingsmith"
    /\ cmdChan = << >> /\ cmdChanClosed = FALSE
    /\ queue = << >> /\ queueClosed = FALSE
    /\ updateChan = << >> /\ updateChanClosed = FALSE
    /\ stopped = FALSE /\ cancelled = FALSE
    /\ wg = 3 /\ released = 0
    /\ LastStatus = ZeroStatus /\ LastStatusTime = 0 /\ legacyMode = 0
    /\ lastStats = ZeroStats
    /\ pc = [cmds |-> "recv", writer |-> "recv", poller |-> "select",
             updates |-> "recv", closer |-> "none"]
    /\ cur = [cmds |-> NoCmd, writer |-> FirstAsk]
    /\ panicked = FALSE
    /\ enqLog = <<FirstAsk>> /\ enqBy = <<"poller">> /\ nDeq = 1 /\ writeLog = <<1>>
    /\ writeErrs = {}
    /\ mx = "free" /\ update = ZeroStats /\ got = ZeroStats /\ lastStatus = ZeroStats
    /\ sinceWrite = WriteSpacing /\ lastGap = WriteSpacing
    /\ startFrom = 0 /\ startMode = 0 /\ startDone = FALSE
    /\ nIntents = 0 /\ nPolls = 0 /\ nNotifs = 0 /\ nDiscCalls = 0
    /\ writeAfterRelease = FALSE
    /\ connState = "Connected" /\ prevConnState = "Connecting"
    /\ pad = "pad" /\ padCommandsNil = FALSE /\ wpwg = 1
    /\ linkUp = TRUE /\ linkLost = FALSE
    /\ apc = [sup |-> "check_ready", cb |-> "none", close |-> "none", ui |-> "idle",
              speed |-> "idle"]
    /\ ret = [sup |-> "none", cb |-> "none", close |-> "none"]
    /\ exited = FALSE
    /\ started = FALSE /\ status = ZeroStats /\ startedAt = 0
    /\ accum = ZeroAccum
    /\ TargetSpeed \in TargetSpeeds
    /\ stopLog = NoStop
    /\ nWpDisconnect = 0 /\ nCloseCmdChan = 0

\* The link stays up in this specification: no disconnect, no Quit; the
\* Poller's further requests are left to the driver specification.
NextSession ==
    \/ InitLoop
    \/ InitCheckReady
    \/ InitSetReady
    \/ InitTick
    \/ StartPauseClick
    \/ StopClick
    \/ ClickSend
    \/ ClickBeltStop
    \/ StopReset
    \/ SpeedClick
    \/ SpeedSend
    \/ NotifySession
    \/ processUpdatesRecv
    \/ processCmdsRecv
    \/ processCmdsStep
    \/ writeLoopRecv
    \/ writeLoopDelay
    \/ writeLoopWrite
    \/ writeLoopSpacing

SpecSession == InitSession /\ [][NextSession]_vars

\* ================================================== claims on the session

\* a tick of the main loop, and one that runs the Ready branch
TickStep == apc.sup = "tick" /\ apc'.sup = "loop"
TickReady == TickStep /\ connState = "Ready" /\ ~panicked'

\* what the tick reads: the previous reading it holds and the new one
TimeDelta == lastStats.Time - status.Time
StepsDelta == lastStats.Steps - status.Steps
KmDelta == lastStats.WalkedKM - status.WalkedKM
DeltasNonNegative == TimeDelta >= 0 /\ StepsDelta >= 0 /\ KmDelta >= 0

Grown(acc) == [timeAccum |-> acc.timeAccum + TimeDelta,
               stepsAccum |-> acc.stepsAccum + StepsDelta,
               kmAccum |-> acc.kmAccum + KmDelta,
               timeAccumTotal |-> acc.timeAccumTotal + TimeDelta,
               stepsAccumTotal |-> acc.stepsAccumTotal + StepsDelta,
               kmAccumTotal |-> acc.kmAccumTotal + KmDelta]

SinceStart(acc) == <<acc.timeAccum, acc.stepsAccum, acc.kmAccum>>
Lifetime(acc) == <<acc.timeAccumTotal, acc.stepsAccumTotal, acc.kmAccumTotal>>

\* no component of a is below the one of b
NotBelow(a, b) == \A i \in 1..3 : a[i] >= b[i]

\* C11: on a tick in state Ready, started becomes true when the session is not
\* started and the new speed is above the previous one, becomes false when the
\* session is started and the new speed is below the previous one and zero,
\* and keeps its value in every other case.
C11_ExternalStartStop ==
    [][ TickReady =>
          started' = IF ~started /\ lastStats.Speed > status.Speed THEN TRUE
                     ELSE IF started /\ lastStats.Speed < status.Speed /\ lastStats.Speed = 0
                          THEN FALSE
                          ELSE started ]_vars

\* a tick has detected a stop made on the device, with no click ever
C11_Witness ==
    /\ stopLog.by = "tick" /\ stopLog.n = 1
    /\ ~started /\ status.Speed = 0
    /\ nIntents = 0

\* C12 (as claimed): on a tick with the session started the accumulators grow
\* by exactly their deltas when all three deltas are non-negative and none
\* changes otherwise, and no tick ever decreases an accumulator.
C12_NoTickDecreases ==
    [][ TickReady =>
          /\ started' => accum' = IF DeltasNonNegative THEN Grown(accum) ELSE accum
          /\ NotBelow(SinceStart(accum'), SinceStart(accum))
          /\ NotBelow(Lifetime(accum'), Lifetime(accum)) ]_vars

\* this tick has accounted a stop that was reported
ReportedStop == stopLog'.n = stopLog.n + 1 /\ stopLog'.sent

\* C12 (amended): on a tick that leaves the session started the accumulators
\* grow by exactly their deltas when all three deltas are non-negative and
\* none changes otherwise; no tick decreases a lifetime accumulator, and a
\* tick decreases the since-start accumulators only by setting them to zero
\* when it accounts a reported stop.
C12_Accumulate ==
    [][ TickReady =>
          /\ started' => accum' = IF DeltasNonNegative THEN Grown(accum) ELSE accum
          /\ NotBelow(Lifetime(accum'), Lifetime(accum))
          /\ IF ReportedStop
             THEN SinceStart(accum') = <<0, 0, 0>>
             ELSE NotBelow(SinceStart(accum'), SinceStart(accum)) ]_vars

\* started by the device, accumulated one reading, then a reading whose
\* distance went back was dropped as a whole
C12_Witness ==
    /\ started /\ nIntents = 0 /\ apc.sup = "loop"
    /\ accum.timeAccumTotal > 0
    /\ status.Time > accum.timeAccumTotal
    /\ status.WalkedKM < accum.kmAccumTotal

\* C13 (as claimed): on a tick that leaves the session not started, and on a
\* tick in a state other than Ready, all accumulators keep their values.
C13_KeptWhenNotStarted ==
    [][ (TickStep /\ ~panicked' /\ (~started' \/ connState # "Ready")) =>
          accum' = accum ]_vars

\* C13 (amended): on such a tick the lifetime accumulators keep their values,
\* and the since-start accumulators keep theirs unless the tick accounts a
\* reported stop, which sets them to zero.
C13_NotAdvancedWhenNotStarted ==
    [][ (TickStep /\ ~panicked' /\ (~started' \/ connState # "Ready")) =>
          /\ Lifetime(accum') = Lifetime(accum)
          /\ SinceStart(accum') = IF ReportedStop THEN <<0, 0, 0>> ELSE SinceStart(accum)
      ]_vars

\* the tick that detected the stop read a later reading and added nothing
C13_Witness ==
    /\ ~started /\ connState = "Ready" /\ apc.sup = "loop"
    /\ stopLog.by = "tick" /\ nIntents = 0
    /\ accum.timeAccumTotal > 0
    /\ status.Time > accum.timeAccumTotal

\* this step is a call of onBeltStop
StopAccounted == stopLog'.n = stopLog.n + 1

\* the reset of the Stop entry: after its onBeltStop when the session was
\* started, at once when it was not
ResetAfterStop == apc.ui = "stop_reset" /\ apc'.ui = "idle"
ResetWhileStopped ==
    /\ apc.ui = "idle" /\ apc'.ui = "idle" /\ ~started
    /\ nIntents' = nIntents + 1 /\ TargetSpeed' = TargetSpeed

\* C14 (as claimed): a call of onBeltStop resets the since-start accumulators
\* and the start time if and only if the session was sent; when it was not
\* sent they keep their values, and the since-start accumulators keep them
\* until the session is started again (a Stop click made while the session is
\* not started, which asks for the reset, aside).
C14_ResetIffSentElseCarried ==
    [][ /\ StopAccounted =>
              IF stopLog'.sent
              THEN SinceStart(accum') = <<0, 0, 0>> /\ startedAt' = 0
              ELSE SinceStart(accum') = SinceStart(accum) /\ startedAt' = startedAt
        /\ (stopLog.n > 0 /\ ~stopLog.sent /\ ~started /\ ~started' /\ ~ResetWhileStopped)
              => SinceStart(accum') = SinceStart(accum) ]_vars

\* C15 (as claimed): a stop whose session was not sent, the one of the Stop
\* entry included, leaves the since-start accumulators and the connection
\* state as they are, through the end of the handler that accounted it.
C15_KeptOnFailedDelivery ==
    [][ /\ (StopAccounted /\ ~stopLog'.sent)
              => SinceStart(accum') = SinceStart(accum) /\ connState' = connState
        /\ (ResetAfterStop /\ stopLog.by = "stop" /\ ~stopLog.sent)
              => SinceStart(accum') = SinceStart(accum) /\ connState' = connState ]_vars

\* C16: the handler of a Pause leaves the lifetime accumulators as they are;
\* a lifetime accumulator decreases only in the reset of the Stop entry; and
\* that reset leaves all six accumulators and the start time at zero.
C16_OnlyStopResets ==
    [][ /\ (apc.ui \in {"pause_send", "pause_stop"} /\ apc'.ui # apc.ui)
              => Lifetime(accum') = Lifetime(accum)
        /\ (apc.ui = "idle" /\ apc'.ui = "pause_send")
              => Lifetime(accum') = Lifetime(accum)
        /\ ~NotBelow(Lifetime(accum'), Lifetime(accum))
              => ResetAfterStop \/ ResetWhileStopped
        /\ (ResetAfterStop \/ (ResetWhileStopped /\ accum' # accum))
              => accum' = ZeroAccum /\ startedAt' = 0 ]_vars

\* a Pause has been accounted and the totals are still there
C16_Witness ==
    /\ stopLog.by = "pause" /\ apc.ui = "idle"
    /\ ~started
    /\ accum.timeAccumTotal > 0

\* the command goroutine runs ChangeSpeed(v): for a CmdChangeSpeed, at the end
\* of a CmdStart, and with 0 for a CmdStop
ChangeSpeedCall == pc.cmds \in {"ChangeSpeed", "StopBelt"} /\ pc'.cmds # pc.cmds
ChangeSpeedArg == IF pc.cmds = "StopBelt" THEN 0 ELSE cur.cmds.Speed

\* the speed-change frame with payload byte b and its checksum
SpeedChangeWire(b) == [timeout |-> 0, buffer |-> <<247, 162, 1, b, (162 + 1 + b) % 256, 253>>]

\* C17: ChangeSpeed(v) with v in [0,6] km/h puts exactly one frame on the
\* queue, the speed-change frame whose payload byte is v*10, and leaves
\* started as it is; with v outside [0,6] it aborts and puts nothing on the
\* queue. The speed click handler leaves started as it is too.
C17_ChangeSpeed ==
    [][ /\ ChangeSpeedCall =>
              IF ChangeSpeedArg >= 0 /\ ChangeSpeedArg <= 600
              THEN /\ ~panicked'
                   /\ Len(enqLog') = Len(enqLog) + 1
                   /\ SubSeq(enqLog', 1, Len(enqLog)) = enqLog
                   /\ Len(queue') = Len(queue) + 1
                   /\ SubSeq(queue', 1, Len(queue)) = queue
                   /\ queue'[Len(queue')] = enqLog'[Len(enqLog')]
                   /\ \E b \in 0..60 :
                         /\ b * 10 = ChangeSpeedArg
                         /\ Wire(enqLog'[Len(enqLog')]) = SpeedChangeWire(b)
                   /\ started' = started
              ELSE /\ panicked'
                   /\ enqLog' = enqLog /\ queue' = queue
                   /\ started' = started
        /\ apc'.speed # apc.speed => started' = started ]_vars

\* the speed picked in the menu while walking is on the queue as one frame
C17_Witness ==
    /\ ~panicked
    /\ \E i \in 1..Len(enqLog) :
          /\ Wire(enqLog[i]) = SpeedChangeWire(60)
          /\ enqBy[i] = "cmds"
          /\ \A j \in 1..Len(enqLog) : Wire(enqLog[j]) = SpeedChangeWire(60) => j = i

\* ==================================================== claims on the codec

\* the frames the command builders hand to pushCmd, before the checksum
RawFrames ==
    {ChangeModeFrame(mode) : mode \in {KingsmithPadModeStandby, KingsmithPadModeManual,
                                       KingsmithPadModeAuto}}
    \cup {StartBeltFrame, AskStatsFrame}
    \cup {ChangeSpeedFrame(speed) : speed \in {0} \cup TargetSpeeds \cup MenuSpeeds}

\* 6-byte frames, three of them with interior bytes that sum beyond a byte
WideFrames ==
    {<<247, 162, 4, 1, 255, 253>>, <<247, 162, 200, 60, 0, 253>>,
     <<247, 255, 255, 255, 162, 253>>, <<247, 255, 0, 1, 255, 253>>}

\* the checksum of a 6-byte frame, written out: Go indices 1..3 into index 4
ChecksumOk(frame) == frame[5] = (frame[2] + frame[3] + frame[4]) % 256

\* frame is raw with at most its checksum byte changed
OnlyChecksumChanged(raw, frame) ==
    /\ Len(frame) = Len(raw)
    /\ \A i \in 1..Len(raw) : i # 5 => frame[i] = raw[i]

\* C18: every command frame on the queue has at index 4 the sum modulo 256
\* of its bytes at indices 1..3; it is one of the frames of the command
\* builders with no other byte changed (header 247 and trailer 253 included);
\* and the checksum step applied again changes nothing. The same holds for
\* the step on frames whose interior bytes sum beyond 255.
C18_Checksum ==
    /\ \A i \in 1..Len(enqLog) :
          enqLog[i].buffer # NilBuf =>
             /\ Len(enqLog[i].buffer) = 6
             /\ enqLog[i].buffer[1] = 247 /\ enqLog[i].buffer[6] = 253
             /\ ChecksumOk(enqLog[i].buffer)
             /\ \E raw \in RawFrames : OnlyChecksumChanged(raw, enqLog[i].buffer)
             /\ fixCrc(enqLog[i].buffer) = enqLog[i].buffer
    /\ \A frame \in WideFrames :
          /\ ChecksumOk(fixCrc(frame))
          /\ OnlyChecksumChanged(frame, fixCrc(frame))
          /\ fixCrc(fixCrc(frame)) = fixCrc(frame)

\* a mode change, a belt start, a speed change and a status request have
\* all been put on the queue
C18_Witness ==
    /\ \E i \in 1..Len(enqLog) : enqLog[i].buffer = <<247, 162, 2, 1, 165, 253>>
    /\ \E i \in 1..Len(enqLog) : enqLog[i].buffer = <<247, 162, 4, 1, 167, 253>>
    /\ \E i \in 1..Len(enqLog) : enqLog[i].buffer = <<247, 162, 1, 25, 188, 253>>
    /\ \E i \in 1..Len(enqLog) : enqLog[i].buffer = <<247, 162, 0, 0, 162, 253>>

\* the big-endian 24-bit value of the three payload bytes from Go index k on
BigEndian24(payload, k) ==
    (payload[k + 1] * 256 + payload[k + 2]) * 256 + payload[k + 3]

\* the reading of a payload whose fields start at Go index k: speed byte/10
\* (in 1/100 km/h), mode, elapsed seconds (in ms), distance/100 (in 1/100 km),
\* steps
Reading(payload, k) ==
    [Speed    |-> payload[k + 1] * 10,
     Mode     |-> payload[k + 2],
     Time     |-> BigEndian24(payload, k + 2) * 1000,
     WalkedKM |-> BigEndian24(payload, k + 5),
     Steps    |-> BigEndian24(payload, k + 8)]

\* the payloads of the status notifications that are long enough to decode
FullPayloads ==
    {DropSignature(buf) : buf \in {b \in NotifFrames : Len(b) >= 14 /\ b[1] = 248 /\ b[2] = 162}}

\* payloads with non-zero high bytes
WidePayloads ==
    {<<1, 25, 1, 0, 0, 10, 0, 0, 50, 0, 0, 7>>,
     <<0, 60, 0, 1, 2, 3, 4, 5, 6, 7, 8, 9, 99>>,
     <<5, 255, 2, 32, 0, 1, 255, 255, 255, 128, 0, 0>>}

\* 2.5 km/h, Manual, 10 s, 0.50 km, 7 steps
ExampleReading ==
    [Speed |-> 250, Mode |-> KingsmithPadModeManual, Time |-> 10000, WalkedKM |-> 50,
     Steps |-> 7]

\* C19 (as claimed): the latest reading is the one decoded from the payload
\* with speed at byte 0, mode at byte 1, elapsed at bytes 2-4, distance at
\* bytes 5-7 and steps at bytes 8-10.
C19_FieldsFromByte0 ==
    LastStatus \in {ZeroStatus} \cup {Reading(payload, 0) : payload \in FullPayloads}

\* C19 (amended): the latest reading is the one decoded from the payload with
\* speed at byte 1, mode at byte 2, elapsed at bytes 3-5, distance at bytes
\* 6-8 and steps at bytes 9-11, 24-bit fields big-endian; byte 0 is not
\* decoded. The payload 1, 25, 1, 0,0,10, 0,0,50, 0,0,7 decodes to 2.5 km/h,
\* Manual, 10 s, 0.50 km, 7 steps.
C19_FieldsFromByte1 ==
    /\ LastStatus \in {ZeroStatus} \cup {Reading(payload, 1) : payload \in FullPayloads}
    /\ \A payload \in WidePayloads : readKingsmithStatusBuffer(payload) = Reading(payload, 1)
    /\ readKingsmithStatusBuffer(<<1, 25, 1, 0, 0, 10, 0, 0, 50, 0, 0, 7>>) = ExampleReading

\* the notification of a walk at 2.5 km/h has been decoded
C19_Witness == LastStatus = ExampleReading /\ nNotifs > 0 /\ ~panicked

\* C20 (as claimed): a notification either is decoded from a full payload or
\* is dropped, which leaves the latest reading and the update channel as they
\* are; in both cases the driver keeps running.
C20_ShortPayloadDropped ==
    [][ (nNotifs' = nNotifs + 1 /\ ~updateChanClosed) =>
          /\ ~panicked'
          /\ \/ \E payload \in FullPayloads : LastStatus' = readKingsmithStatusBuffer(payload)
             \/ LastStatus' = LastStatus /\ updateChan' = updateChan ]_vars

\* ============================================ claims on the latest reading

\* this step is the delivery of the notification buf to onBufferReceive
Delivered(buf) == nNotifs' = nNotifs + 1 /\ onBufferReceive(buf)

\* buf carries the status signature
HasSignature(buf) == Len(buf) >= 2 /\ buf[1] = 248 /\ buf[2] = 162

\* C21 (as claimed): pad.LastStatus changes only in the delivery of a
\* notification with the signature 248,162; after every such delivery it
\* holds the decoding of the notification; and the delivery of any other
\* frame, or of one shorter than 2 bytes, leaves it unchanged and raises no
\* error.
C21_SlotFollowsSignatureFrames ==
    [][ /\ LastStatus' # LastStatus =>
              \E buf \in NotifFrames : HasSignature(buf) /\ Delivered(buf)
        /\ \A buf \in NotifFrames :
              Delivered(buf) =>
                 IF HasSignature(buf)
                 THEN /\ ~panicked'
                      /\ Len(buf) >= 14 => LastStatus' = Reading(DropSignature(buf), 1)
                 ELSE LastStatus' = LastStatus /\ ~panicked' ]_vars

\* the update path is quiescent: no update is buffered between the driver
\* and processUpdates
UpdatesQuiescent == updateChan = << >>

\* C22 (as claimed): once the update path is quiescent, the reading GetStats
\* returns is the one of the latest signature notification the driver has
\* decoded; no newer reading is given up for older buffered ones.
C22_GetStatsIsLatest ==
    (UpdatesQuiescent /\ nNotifs > 0 /\ ~panicked) => GetStats = UpdateStatsMsg(LastStatus)

\* ================================================== claims on the Poller

\* the status requests the Poller has enqueued
PollerEntries == PickBy(1, "poller", << >>)

\* C23 (as claimed): the Poller enqueues a status request at once and one
\* more after every tick, nothing else; and once the driver has been closed
\* (Disconnect has closed the queue) the Poller enqueues nothing more: the
\* only step it makes is its exit.
C23_PollerUntilClosed ==
    [][ /\ \A i \in 1..Len(PollerEntries) : PollerEntries[i].buffer = fixCrc(AskStatsFrame)
        /\ Len(PollerEntries) = IF pc.poller = "AskStats" THEN nPolls ELSE nPolls + 1
        /\ (queueClosed /\ pc'.poller # pc.poller) => pc'.poller = "done" /\ ~panicked' ]_vars

\* ================================================== claims on the Writer

\* C24: a transport write, failed or not, is one attempt for the entry the
\* Writer holds, after which the Writer sleeps the spacing and takes the next
\* entry of the queue; the step touches neither the queue, nor the teardown
\* state, nor the other goroutines, nor the state of the app; and no entry
\* is written twice.
C24_WriteFailureIgnored ==
    [][ /\ writeLog' # writeLog =>
              /\ pc.writer = "write" /\ pc'.writer = "spacing"
              /\ writeLog' = Append(writeLog, cur.writer.seq)
              /\ cur' = cur /\ nDeq' = nDeq /\ ~panicked'
              /\ \A p \in {"cmds", "poller", "updates", "closer"} : pc'[p] = pc[p]
              /\ UNCHANGED <<vCmdChan, vQueue, vUpdate, vTeardown, wg, appVars>>
        /\ (pc.writer = "spacing" /\ pc'.writer # "spacing") => pc'.writer = "recv"
        /\ (pc.writer = "recv" /\ pc'.writer \notin {"recv", "done"}) =>
              cur'.writer = enqLog[nDeq + 1] /\ nDeq' = nDeq + 1
        /\ \A i, j \in 1..Len(writeLog') : writeLog'[i] = writeLog'[j] => i = j ]_vars

\* a write has failed and a later entry has been written after it, with the
\* driver still open
C24_Witness ==
    /\ \E i \in 1..(Len(writeLog) - 1) : writeLog[i] \in writeErrs
    /\ ~panicked /\ ~stopped

\* ============================================= the latest reading's mutex
\*
\* processUpdates and GetStats at the grain of their statements: the
\* receive, Lock, the copy of the struct (not one memory operation: two
\* parts), Unlock.  The other specifications take both as one step each.

\* wp.mx.Lock() that does not wait
Lock_NoWait(p) == mx' = p

\* wp.mx.Lock() by goroutine p: waits while the mutex is held
Lock(p) == mx = "free" /\ mx' = p

\* wp.mx.Unlock()
Unlock == mx' = "free"

\* the two parts of dst = src for an internal.UpdateStats
CopyFirst(dst, src) ==
    [dst EXCEPT !.Timestamp = src.Timestamp, !.Speed = src.Speed, !.Time = src.Time]
CopySecond(dst, src) == [dst EXCEPT !.WalkedKM = src.WalkedKM, !.Steps = src.Steps]

\* what the statements below leave alone
vStatsFrame == <<variant, lastStatus, vCmdChan, vQueue, updateChanClosed, vTeardown, wg, LastStatus,
                 LastStatusTime, legacyMode, cur, panicked, vStart, vWrite, vCount, connState,
                 prevConnState, pad, vWrapper, vLink, ret, exited, started, startedAt,
                 accum, TargetSpeed, stopLog>>

\* for update := range wp.padUpdates
processUpdatesTake ==
    /\ Alive /\ pc.updates = "recv" /\ updateChan # << >>
    /\ update' = Head(updateChan)
    /\ updateChan' = Tail(updateChan)
    /\ pc' = [pc EXCEPT !.updates = "Lock"]
    /\ UNCHANGED <<vStatsFrame, lastStats, mx, got, apc, status>>

\* wp.mx.Lock()
processUpdatesLock ==
    /\ Alive /\ pc.updates = "Lock"
    /\ Lock("updates")
    /\ pc' = [pc EXCEPT !.updates = "copy1"]
    /\ UNCHANGED <<vStatsFrame, updateChan, lastStats, update, got, apc, status>>

\* wp.lastStats = *update
processUpdatesCopy ==
    /\ Alive /\ pc.updates \in {"copy1", "copy2"}
    /\ lastStats' = IF pc.updates = "copy1" THEN CopyFirst(lastStats, update)
                    ELSE CopySecond(lastStats, update)
    /\ pc' = [pc EXCEPT !.updates = IF pc.updates = "copy1" THEN "copy2" ELSE "Unlock"]
    /\ UNCHANGED <<vStatsFrame, updateChan, mx, update, got, apc, status>>

\* wp.mx.Unlock()
processUpdatesUnlock ==
    /\ Alive /\ pc.updates = "Unlock"
    /\ Unlock
    /\ pc' = [pc EXCEPT !.updates = "recv"]
    /\ UNCHANGED <<vStatsFrame, updateChan, lastStats, update, got, apc, status>>

\* GetStats: wp.mx.Lock(), called from the loop of App.Init
GetStatsLock ==
    /\ Alive /\ apc.sup = "check_ready"
    /\ Lock("sup")
    /\ apc' = [apc EXCEPT !.sup = "GetStats_copy1"]
    /\ UNCHANGED <<vStatsFrame, updateChan, lastStats, update, got, pc, status>>

\* return wp.lastStats: the copy into the return value
GetStatsCopy ==
    /\ Alive /\ apc.sup \in {"GetStats_copy1", "GetStats_copy2"}
    /\ got' = IF apc.sup = "GetStats_copy1" THEN CopyFirst(got, lastStats)
              ELSE CopySecond(got, lastStats)
    /\ apc' = [apc EXCEPT !.sup = IF apc.sup = "GetStats_copy1" THEN "GetStats_copy2"
                                   ELSE "GetStats_return"]
    /\ UNCHANGED <<vStatsFrame, updateChan, lastStats, mx, update, pc, status>>

\* defer wp.mx.Unlock(); the caller stores the value: app.state.status = ...
GetStatsReturn ==
    /\ Alive /\ apc.sup = "GetStats_return"
    /\ Unlock
    /\ status' = got
    /\ apc' = [apc EXCEPT !.sup = "check_ready"]
    /\ UNCHANGED <<vStatsFrame, updateChan, lastStats, update, got, pc>>

NextStats ==
    \/ NotifySession
    \/ processUpdatesTake
    \/ processUpdatesLock
    \/ processUpdatesCopy
    \/ processUpdatesUnlock
    \/ GetStatsLock
    \/ GetStatsCopy
    \/ GetStatsReturn

SpecStats == InitSession /\ [][NextStats]_vars

\* the goroutines between Lock and Unlock
UpdaterInside == pc.updates \in {"copy1", "copy2", "Unlock"}
ReaderInside == apc.sup \in {"GetStats_copy1", "GetStats_copy2", "GetStats_return"}

\* the readings one update can have written
WholeReadings ==
    {ZeroStats} \cup
    {UpdateStatsMsg(Reading(DropSignature(buf), 1)) : buf \in SessionFrames}

\* C25: processUpdates and GetStats are never both between Lock and Unlock,
\* the mutex is held by the one that is, and what GetStats returns is a
\* reading written in whole by a single update.
C25_MutualExclusion ==
    /\ ~(UpdaterInside /\ ReaderInside)
    /\ UpdaterInside => mx = "updates"
    /\ ReaderInside => mx = "sup"
    /\ apc.sup = "GetStats_return" => got \in WholeReadings
    /\ status \in WholeReadings

\* processUpdates waits for the mutex that GetStats holds, after GetStats
\* has returned one reading and a newer one has been written
C25_Witness ==
    /\ pc.updates = "Lock" /\ mx = "sup" /\ ReaderInside
    /\ status # ZeroStats /\ lastStats # status

\* =================================================== the failed attempt

\* the supervisor's positions inside attemptToConnect
InAttempt == {"atc_entry", "atc_scan", "atc_discover", "atc_none", "atc_connecting",
              "atc_new", "atc_assign", "atc_connected", "atc_defer"}

\* the supervisor's next statement on the way from a returned attempt to
\* the next discovery
RetryPath ==
    [after_atc |-> "loop", loop |-> "atc_entry", atc_entry |-> "atc_scan",
     atc_scan |-> "atc_discover"]

\* one of the statements on that way can run
RetryNotBlocked ==
    ENABLED (InitAfterAttempt \/ InitLoop \/ attemptToConnectEntry \/ attemptToConnectScan)

\* attemptToConnect returns and no driver has been constructed
FailedAttemptReturns == apc.sup = "atc_defer" /\ apc'.sup = "after_atc" /\ pad = "nil"

\* C26: an attempt that ends without a driver leaves the state Disconnected;
\* from there the supervisor waits, loops and runs discovery again, one
\* statement after the other and none of them blocked; the state is Scanning
\* or Connecting only while an attempt is running.
C26_FailedAttemptRetried ==
    [][ /\ FailedAttemptReturns => connState' = "Disconnected"
        /\ \A l \in DOMAIN RetryPath :
              (apc.sup = l /\ apc'.sup # l /\ pad = "nil") =>
                  /\ connState = "Disconnected"
                  /\ apc'.sup = RetryPath[l]
        /\ \A l \in DOMAIN RetryPath :
              (apc'.sup = l /\ pad' = "nil" /\ ~panicked' /\ ~exited') =>
                  RetryNotBlocked'
        /\ connState' \in {"Scanning", "Connecting"} => apc'.sup \in InAttempt
      ]_vars

\* a failed connect (the state had reached Connecting) has been reset to
\* Disconnected and the supervisor has entered the next attempt
C26_Witness ==
    /\ apc.sup = "atc_entry" /\ pad = "nil"
    /\ connState = "Disconnected" /\ prevConnState = "Connecting"

\* ================================================ the legacy supervisor
\*
\* The monolithic variant: App.Init, attemptToConnect, the connect handler
\* and disconnectConnectedPad of the legacy app, with the legacy driver
\* (writeLoop, askStatsLoop, onBufferReceive, Disconnect).  The user does not
\* quit and sends no intent; a second Connect does not succeed.

\* what the supervisor's own statements leave alone
vLegacyFrame == <<drvVars, vWrapper, vLink, ret, exited, TargetSpeed, stopLog>>

\* for { if app.state.connState == connectionStateDisconnected { attemptToConnect()
legacyInitLoop ==
    /\ Alive /\ apc.sup = "loop"
    /\ apc' = [apc EXCEPT !.sup = IF connState = "Disconnected"
                                  THEN "atc_entry" ELSE "check_ready"]
    /\ UNCHANGED <<vLegacyFrame, connState, prevConnState, pad, vSession>>

\* attemptToConnect up to the discovery: the old pad is disconnected, the
\* state becomes Scanning
legacyAttemptScan ==
    /\ Alive /\ apc.sup \in {"atc_entry", "atc_scan"}
    /\ IF apc.sup = "atc_entry"
       THEN /\ apc' = [apc EXCEPT !.sup = IF pad # "nil" THEN "dcp_entry" ELSE "atc_scan"]
            /\ ret' = IF pad # "nil" THEN [ret EXCEPT !.sup = "atc_scan"] ELSE ret
            /\ UNCHANGED <<connState, prevConnState>>
       ELSE /\ SetConnState("Scanning")
            /\ apc' = [apc EXCEPT !.sup = "atc_discover"]
            /\ UNCHANGED ret
    /\ UNCHANGED <<drvVars, vWrapper, vLink, exited, TargetSpeed, stopLog, pad, vSession>>

\* FindWalkingPadCandidates: an error (return err), no device, or a device
legacyAttemptDiscover ==
    /\ Alive /\ apc.sup = "atc_discover"
    /\ \E outcome \in {"after_atc", "atc_none", "atc_connecting"} :
          apc' = [apc EXCEPT !.sup = outcome]
    /\ UNCHANGED <<vLegacyFrame, connState, prevConnState, pad, vSession>>

\* if len(devices) == 0 { app.state.connState = connectionStateDisconnected; return nil }
legacyAttemptNone ==
    /\ Alive /\ apc.sup = "atc_none"
    /\ SetConnState("Disconnected")
    /\ apc' = [apc EXCEPT !.sup = "after_atc"]
    /\ UNCHANGED <<vLegacyFrame, pad, vSession>>

\* app.state.connState = connectionStateConnecting
legacyAttemptConnecting ==
    /\ Alive /\ apc.sup = "atc_connecting"
    /\ SetConnState("Connecting")
    /\ apc' = [apc EXCEPT !.sup = "atc_new"]
    /\ UNCHANGED <<vLegacyFrame, pad, vSession>>

\* devices[0].Connect: an error (return err), or the driver is built
\* (pad.wg.Add(2), writeLoop, askStatsLoop)
legacyConnect ==
    /\ Alive /\ apc.sup = "atc_new"
    /\ \/ /\ apc' = [apc EXCEPT !.sup = "after_atc"]
          /\ UNCHANGED <<pc, wg, linkUp>>
       \/ /\ pc.writer = "none"
          /\ pc' = [pc EXCEPT !.writer = "recv", !.poller = "AskStats", !.closer = "idle"]
          /\ wg' = 2
          /\ linkUp' = TRUE
          /\ apc' = [apc EXCEPT !.sup = "atc_connected"]
    /\ UNCHANGED <<vMutex, variant, vCmdChan, vQueue, vUpdate, vTeardown, vStatus, cur, panicked,
                   vStart, vWrite, vCount, connState, prevConnState, pad, vWrapper, linkLost,
                   ret, exited, vSession, TargetSpeed, stopLog>>

\* app.state.connState = connectionStateConnected, then app.pad = pad
legacyAttemptConnected ==
    /\ Alive /\ apc.sup \in {"atc_connected", "atc_assign"}
    /\ IF apc.sup = "atc_connected"
       THEN /\ SetConnState("Connected")
            /\ apc' = [apc EXCEPT !.sup = "atc_assign"]
            /\ UNCHANGED pad
       ELSE /\ pad' = "pad"
            /\ apc' = [apc EXCEPT !.sup = "after_atc"]
            /\ UNCHANGED <<connState, prevConnState>>
    /\ UNCHANGED <<vLegacyFrame, vSession>>

\* if still Disconnected: time.Sleep(5 s); continue
legacyInitAfterAttempt ==
    /\ Alive /\ apc.sup = "after_atc"
    /\ apc' = [apc EXCEPT !.sup = IF connState = "Disconnected"
                                  THEN "loop" ELSE "check_ready"]
    /\ UNCHANGED <<vLegacyFrame, connState, prevConnState, pad, vSession>>

\* if connState == Connected && !app.pad.LastStatusTime.IsZero() { connState = Ready }
legacyInitCheckReady ==
    /\ Alive /\ apc.sup = "check_ready"
    /\ IF connState = "Connected" /\ pad = "nil"
       THEN panicked' = TRUE /\ UNCHANGED <<apc, connState, prevConnState>>
       ELSE /\ IF connState = "Connected" /\ LastStatusTime # 0
               THEN SetConnState("Ready")
               ELSE UNCHANGED <<connState, prevConnState>>
            /\ apc' = [apc EXCEPT !.sup = "tick"]
            /\ UNCHANGED panicked
    /\ UNCHANGED <<vMutex, variant, vCmdChan, vQueue, vUpdate, vTeardown, wg, vStatus, pc, cur,
                   vStart, vWrite, vCount, pad, vWrapper, vLink, ret, exited, vSession,
                   TargetSpeed, stopLog>>

\* the legacy accumulate block: the session counters only
legacyAccumulate(acc, run, old, new) ==
    LET timeDiff == new.Time - old.Time
        stepsDiff == new.Steps - old.Steps
        kmDiff == new.WalkedKM - old.WalkedKM
    IN IF run /\ timeDiff >= 0 /\ stepsDiff >= 0 /\ kmDiff >= 0
       THEN [acc EXCEPT !.timeAccum = @ + timeDiff, !.stepsAccum = @ + stepsDiff,
                        !.kmAccum = @ + kmDiff]
       ELSE acc

\* the legacy sync of external changes
legacySync(run, old, new) ==
    LET tempoDiff == new.Speed - old.Speed
        run1 == run \/ tempoDiff > 0
    IN IF run1 /\ tempoDiff < 0 /\ new.Speed = 0 THEN FALSE ELSE run1

\* The rest of one iteration: the Ready branch (the copy of pad.LastStatus,
\* accumulate, sync) or the reset; updateUI, time.Sleep(500 ms).
legacyInitTick ==
    /\ Alive /\ apc.sup = "tick"
    /\ IF connState = "Ready"
       THEN IF pad = "nil"
            THEN panicked' = TRUE /\ UNCHANGED <<vSession, legacyMode>>
            ELSE /\ status' = LastStatus
                 /\ legacyMode' = LastStatus.Mode
                 /\ accum' = legacyAccumulate(accum, started, status, LastStatus)
                 /\ started' = legacySync(started, status, LastStatus)
                 /\ UNCHANGED <<startedAt, panicked>>
       ELSE /\ started' = FALSE
            /\ status' = ZeroStatus
            /\ legacyMode' = 0
            /\ UNCHANGED <<startedAt, accum, panicked>>
    /\ apc' = [apc EXCEPT !.sup = "loop"]
    /\ UNCHANGED <<vMutex, variant, vCmdChan, vQueue, vUpdate, vTeardown, wg, LastStatus,
                   LastStatusTime, lastStats, pc, cur, vStart, vWrite, vCount, connState,
                   prevConnState, pad, vWrapper, vLink, ret, exited, TargetSpeed, stopLog>>

\* onConnectionStateChange: if app.pad != nil && ... && !connected { disconnectConnectedPad() }
legacyOnConnectionStateChange ==
    /\ Alive /\ apc.cb = "called"
    /\ apc' = [apc EXCEPT !.cb = IF pad # "nil" THEN "dcp_entry" ELSE "idle"]
    /\ ret' = [ret EXCEPT !.cb = "idle"]
    /\ UNCHANGED <<drvVars, connState, prevConnState, pad, vWrapper, vLink, exited,
                   vSession, TargetSpeed, stopLog>>

\* One step of the legacy disconnectConnectedPad by goroutine p: the check of
\* app.pad, the call of app.pad.Disconnect() and its return, then the state
\* and app.pad = nil.
legacyDisconnectConnectedPad(p) ==
    /\ Alive
    /\ apc[p] \in {"dcp_entry", "dcp_call", "dcp_wait", "dcp_state", "dcp_clear"}
    /\ CASE apc[p] = "dcp_entry" ->
              /\ apc' = [apc EXCEPT ![p] = IF pad # "nil" THEN "dcp_call" ELSE ret[p]]
              /\ UNCHANGED <<pc, panicked, nDiscCalls, connState, prevConnState, pad>>
         [] apc[p] = "dcp_call" ->
              /\ pc.closer = "idle"
              /\ IF pad = "nil"
                 THEN panicked' = TRUE /\ UNCHANGED <<pc, apc, nDiscCalls>>
                 ELSE /\ pc' = [pc EXCEPT !.closer = "Disconnect"]
                      /\ nDiscCalls' = nDiscCalls + 1
                      /\ apc' = [apc EXCEPT ![p] = "dcp_wait"]
                      /\ UNCHANGED panicked
              /\ UNCHANGED <<connState, prevConnState, pad>>
         [] apc[p] = "dcp_wait" ->
              /\ pc.closer = "idle"
              /\ apc' = [apc EXCEPT ![p] = "dcp_state"]
              /\ UNCHANGED <<pc, panicked, nDiscCalls, connState, prevConnState, pad>>
         [] apc[p] = "dcp_state" ->
              /\ SetConnState("Disconnected")
              /\ apc' = [apc EXCEPT ![p] = "dcp_clear"]
              /\ UNCHANGED <<pc, panicked, nDiscCalls, pad>>
         [] apc[p] = "dcp_clear" ->
              /\ pad' = "nil"
              /\ apc' = [apc EXCEPT ![p] = ret[p]]
              /\ UNCHANGED <<pc, panicked, nDiscCalls, connState, prevConnState>>
    /\ UNCHANGED <<vMutex, variant, vCmdChan, vQueue, vUpdate, vTeardown, wg, vStatus, cur,
                   vStart, vWrite, nIntents, nPolls, nNotifs, vWrapper, vLink, ret, exited,
                   vSession, TargetSpeed, stopLog>>

\* The legacy app as main starts it: nothing connected, the main loop about
\* to run.
InitLegacyApp ==
    /\ variant = "legacy"
    /\ cmdChan = << >> /\ cmdChanClosed = FALSE
    /\ queue = << >> /\ queueClosed = FALSE
    /\ updateChan = << >> /\ updateChanClosed = FALSE
    /\ stopped = FALSE /\ cancelled = FALSE
    /\ wg = 0 /\ released = 0
    /\ LastStatus = ZeroStatus /\ LastStatusTime = 0 /\ legacyMode = 0
    /\ lastStats = ZeroStats
    /\ pc = [cmds |-> "none", writer |-> "none", poller |-> "none", updates |-> "none",
             closer |-> "none"]
    /\ cur = [cmds |-> NoCmd, writer |-> ZeroCommand]
    /\ panicked = FALSE
    /\ enqLog = << >> /\ enqBy = << >> /\ nDeq = 0 /\ writeLog = << >>
    /\ writeErrs = {}
    /\ mx = "free" /\ update = ZeroStats /\ got = ZeroStats /\ lastStatus = ZeroStats
    /\ sinceWrite = 0 /\ lastGap = WriteSpacing
    /\ startFrom = 0 /\ startMode = 0 /\ startDone = FALSE
    /\ nIntents = 0 /\ nPolls = 0 /\ nNotifs = 0 /\ nDiscCalls = 0
    /\ writeAfterRelease = FALSE
    /\ connState = "Disconnected" /\ prevConnState = "Disconnected"
    /\ pad = "nil" /\ padCommandsNil = FALSE /\ wpwg = 0
    /\ linkUp = FALSE /\ linkLost = FALSE
    /\ apc = [sup |-> "loop", cb |-> "idle", close |-> "none", ui |-> "none",
             speed |-> "none"]
    /\ ret = [sup |-> "none", cb |-> "none", close |-> "none"]
    /\ exited = FALSE
    /\ started = FALSE /\ status = ZeroStatus /\ startedAt = 0
    /\ accum = ZeroAccum
    /\ TargetSpeed = DefaultTargetSpeed
    /\ stopLog = NoStop
    /\ nWpDisconnect = 0 /\ nCloseCmdChan = 0

NextLegacyApp ==
    \/ legacyInitLoop
    \/ legacyAttemptScan
    \/ legacyAttemptDiscover
    \/ legacyAttemptNone
    \/ legacyAttemptConnecting
    \/ legacyConnect
    \/ legacyAttemptConnected
    \/ legacyInitAfterAttempt
    \/ legacyInitCheckReady
    \/ legacyInitTick
    \/ LinkLoss
    \/ legacyOnConnectionStateChange
    \/ \E p \in {"sup", "cb"} : legacyDisconnectConnectedPad(p)
    \/ DisconnectEnter
    \/ DisconnectCloseQueue
    \/ DisconnectCancel
    \/ DisconnectWait
    \/ DisconnectRelease
    \/ DisconnectReturn
    \/ writeLoopRecv
    \/ writeLoopExit
    \/ writeLoopWrite
    \/ writeLoopSpacing
    \/ askStatsLoopAsk
    \/ askStatsLoopTick
    \/ askStatsLoopExit
    \/ Notify

SpecLegacyApp == InitLegacyApp /\ [][NextLegacyApp]_vars

\* the legacy attemptToConnect returns and no driver has been constructed
LegacyFailedAttemptReturns ==
    /\ apc.sup \in {"atc_discover", "atc_none", "atc_new"}
    /\ apc'.sup = "after_atc"

\* C27: in the legacy supervisor an attempt that ends without a driver
\* leaves the state Disconnected, and the supervisor goes from the returned
\* attempt to the top of the loop and into the next attempt.
C27_LegacyFailedAttemptRetried ==
    [][ /\ LegacyFailedAttemptReturns => connState' = "Disconnected"
        /\ (apc.sup = "after_atc" /\ apc'.sup # "after_atc" /\ pad = "nil")
              => apc'.sup = "loop"
        /\ (apc.sup = "loop" /\ apc'.sup # "loop" /\ pad = "nil")
              => apc'.sup = "atc_entry"
      ]_vars

\* ====================================================== the void session

\* the supervisor ends a tick on which the state is not Ready
NotReadyTick == apc.sup = "tick" /\ apc'.sup = "loop" /\ connState # "Ready"

\* C28: a tick on which the state is not Ready ends with started false and
\* the held reading zero, and the accumulators as they were.
C28_NotReadyTickVoidsSession ==
    [][ NotReadyTick =>
          /\ started' = FALSE
          /\ status' = ZeroStats
          /\ accum' = accum
          /\ ~panicked'
      ]_vars

\* a not-Ready tick has ended although the wrapper holds a reading already
\* (it arrived after the tick's check for Ready)
C28_Witness ==
    /\ apc.sup = "loop" /\ connState = "Connected" /\ pad = "pad"
    /\ lastStats.Timestamp # 0
    /\ ~started /\ status = ZeroStats

\* ================================================== one Writer at a time

\* the Writer and the Poller of the driver have returned
OldTasksExited == pc.writer = "done" /\ pc.poller = "done"

PollerSends == pc.poller = "AskStats" /\ pc'.poller = "select"

\* this step is a pad.queue <- ... of the command processor
ProcessorSends ==
    /\ pc.cmds \in {"ChangeMode", "StartBelt", "WaitCmd", "ChangeSpeed", "StopBelt"}
    /\ pc'.cmds # pc.cmds
    /\ pc.cmds = "ChangeSpeed" => ValidSpeed(cur.cmds.Speed)

\* this step is the callback's select with case pad.updateChan <- msg
CallbackSends ==
    /\ variant = "kingsmith"
    /\ \E buf \in NotifFrames : HasSignature(buf) /\ Len(buf) >= 14 /\ Delivered(buf)

\* C30 (as claimed): once teardown has closed the command queue neither the
\* Poller nor the command processor executes a send on it, and once it has
\* closed the update channel the notification callback executes no send on it.
C30_NoSendOnClosedChannel ==
    [][ /\ queueClosed => (~PollerSends /\ ~ProcessorSends)
        /\ updateChanClosed => ~CallbackSends
      ]_vars

\* ============================================= the session torn down
\*
\* The session of SpecSession with the teardown of the driver beside it:
\* the transport's disconnect callback, the Walkingpad wrapper's Disconnect
\* and the teardown of the driver.  The user does not quit here (SpecApp has
\* App.Close).

\* The first reading of the session
FirstReading == Reading(DropSignature(StatusFrame(15, KingsmithPadModeManual, 10, 50, 7)), 1)

\* A connected pad about to become Ready: the driver has written its first
\* status request and decoded the answer, the wrapper holds it and the
\* supervisor is about to look at it.  The pad sends nothing more; the
\* connect handler is installed and the tray's event loop is running.
InitTeardown ==
    /\ variant = "kingsmith"
    /\ cmdChan = << >> /\ cmdChanClosed = FALSE
    /\ queue = << >> /\ queueClosed = FALSE
    /\ updateChan = << >> /\ updateChanClosed = FALSE
    /\ stopped = FALSE /\ cancelled = FALSE
    /\ wg = 3 /\ released = 0
    /\ LastStatus = FirstReading /\ LastStatusTime = 1 /\ legacyMode = 0
    /\ lastStats = UpdateStatsMsg(FirstReading)
    /\ pc = [cmds |-> "recv", writer |-> "recv", poller |-> "select",
             updates |-> "recv", closer |-> "none"]
    /\ cur = [cmds |-> NoCmd, writer |-> FirstAsk]
    /\ panicked = FALSE
    /\ enqLog = <<FirstAsk>> /\ enqBy = <<"poller">> /\ nDeq = 1 /\ writeLog = <<1>>
    /\ writeErrs = {}
    /\ mx = "free" /\ update = ZeroStats /\ got = ZeroStats /\ lastStatus = ZeroStats
    /\ sinceWrite = WriteSpacing /\ lastGap = WriteSpacing
    /\ startFrom = 0 /\ startMode = 0 /\ startDone = FALSE
    /\ nIntents = 0 /\ nPolls = 0 /\ nNotifs = 1 /\ nDiscCalls = 0
    /\ writeAfterRelease = FALSE
    /\ connState = "Connected" /\ prevConnState = "Connecting"
    /\ pad = "pad" /\ padCommandsNil = FALSE /\ wpwg = 1
    /\ linkUp = TRUE /\ linkLost = FALSE
    /\ apc = [sup |-> "check_ready", cb |-> "idle", close |-> "none", ui |-> "idle",
              speed |-> "idle"]
    /\ ret = [sup |-> "none", cb |-> "none", close |-> "none"]
    /\ exited = FALSE
    /\ started = FALSE /\ status = ZeroStats /\ startedAt = 0
    /\ accum = ZeroAccum
    /\ TargetSpeed = DefaultTargetSpeed
    /\ stopLog = NoStop
    /\ nWpDisconnect = 0 /\ nCloseCmdChan = 0

NextTeardown ==
    \/ InitLoop
    \/ InitCheckReady
    \/ InitSetReady
    \/ InitTick
    \/ StartPauseClick
    \/ StopClick
    \/ ClickSend
    \/ ClickBeltStop
    \/ StopReset
    \/ SpeedClick
    \/ SpeedSend
    \/ processUpdatesExit
    \/ processCmdsRecv
    \/ processCmdsStep
    \/ processCmdsClosed
    \/ KingsmithPadDisconnect
    \/ writeLoopRecv
    \/ writeLoopExit
    \/ writeLoopDelay
    \/ writeLoopWrite
    \/ writeLoopSpacing
    \/ askStatsLoopExit
    \/ LinkLoss
    \/ onConnectionStateChange
    \/ disconnectConnectedPad("cb")

SpecTeardown == InitTeardown /\ [][NextTeardown]_vars

\* this step is a click handler's app.pad.Send(...)
UISends ==
    \/ apc.ui \in {"start_send", "pause_send", "stop_send"} /\ apc'.ui # apc.ui
    \/ apc.speed = "send" /\ apc'.speed = "idle"

\* C31 (as claimed): no click handler executes its send on the command
\* channel once teardown has closed that channel.
C31_NoIntentAfterClose == [][ cmdChanClosed => ~UISends ]_vars

\* this step dereferences app.pad: GetStats in the supervisor's check for
\* Ready and in its Ready branch, Send in a click handler
UsesPad ==
    \/ apc.sup = "check_ready" /\ apc'.sup # "check_ready" /\ connState = "Connected"
    \/ apc.sup = "tick" /\ apc'.sup # "tick" /\ connState = "Ready"
    \/ apc.sup \in {"check_ready", "tick"} /\ panicked' /\ ~panicked /\ apc' = apc
    \/ UISends

\* C32: whenever the supervisor or a click handler uses app.pad, a driver is
\* attached, also while the disconnect callback runs its teardown.
C32_PadAttachedWhenUsed == [][ UsesPad => pad # "nil" ]_vars

\* the supervisor has run a Ready tick (it holds the wrapper's reading) and
\* stands before the next one while the disconnect callback is in the
\* teardown of the same pad
C32_Witness ==
    /\ linkLost /\ apc.cb = "wpd_wait" /\ pc.updates = "done"
    /\ apc.sup = "tick" /\ connState = "Ready" /\ status = lastStats
    /\ pad = "pad" /\ ~panicked

\* ================================================ teardown from two places

\* goroutine p passes the guard of Walkingpad.Disconnect (wp.padCommands == nil)
PassesGuard(p) == apc[p] = "wpd_check" /\ apc'[p] = "wpd_close"

\* C33 (as claimed): a goroutine that calls Walkingpad.Disconnect after
\* another has closed the command channel does not get past the guard; the
\* command channel and the command queue are closed once (no close of a
\* closed channel) and the link is released at most once.
C33_TeardownOnce ==
    [][ /\ \A p \in Procs : PassesGuard(p) => ~cmdChanClosed
        /\ nCloseCmdChan' <= 1
        /\ (pc.cmds = "close_queue" /\ pc'.cmds # "close_queue") => ~queueClosed
        /\ released' <= 1
      ]_vars
\* ============================ the accumulators, statement by statement
\*
\* The main loop and the click handler are two goroutines that share app.state
\* without a lock.  Here the six additions of the tick and the seven
\* assignments of the Stop branch are steps of their own.

\* the accumulators in the order both goroutines write them; a goroutine that
\* stands at a field has that field's statement to run next
AccumFields == <<"timeAccum", "stepsAccum", "kmAccum",
                 "timeAccumTotal", "stepsAccumTotal", "kmAccumTotal">>

InAccumFields(label) == \E i \in 1..Len(AccumFields) : AccumFields[i] = label

\* the statement after the one on field f; "done" after the last
AfterField(f) ==
    LET i == CHOOSE j \in 1..Len(AccumFields) : AccumFields[j] = f
    IN IF i < Len(AccumFields) THEN AccumFields[i + 1] ELSE "done"

\* timeDiff, stepsDiff, kmDiff of the tick, by the field they are added to
FieldDiff(f) ==
    CASE f \in {"timeAccum", "timeAccumTotal"} -> status.Time - lastStatus.Time
      [] f \in {"stepsAccum", "stepsAccumTotal"} -> status.Steps - lastStatus.Steps
      [] f \in {"kmAccum", "kmAccumTotal"} -> status.WalkedKM - lastStatus.WalkedKM

\* The tick up to the additions: the new reading, the sync of external
\* changes and the two conditions that guard the additions; the reset in
\* every state but Ready.
TickSync ==
    /\ Alive /\ apc.sup = "tick"
    /\ IF IsReady(connState)
       THEN IF pad = "nil"
            THEN /\ panicked' = TRUE
                 /\ UNCHANGED <<vSession, stopLog, lastStatus, apc>>
            ELSE /\ lastStatus' = status
                 /\ status' = GetStats
                 /\ \E sent \in BOOLEAN :
                      LET tempoDiff == GetStats.Speed - status.Speed
                          st1 == IF ~started /\ tempoDiff > 0
                                 THEN onBeltStart(Session) ELSE Session
                          st2 == IF st1.started /\ tempoDiff < 0 /\ GetStats.Speed = 0
                                 THEN AccountStop(st1, sent, "tick") ELSE st1
                      IN /\ started' = st2.started
                         /\ startedAt' = st2.startedAt
                         /\ accum' = st2.accum
                         /\ stopLog' = st2.stopLog
                         /\ apc' = [apc EXCEPT !.sup =
                               IF /\ st2.started
                                  /\ GetStats.Time - status.Time >= 0
                                  /\ GetStats.Steps - status.Steps >= 0
                                  /\ GetStats.WalkedKM - status.WalkedKM >= 0
                               THEN AccumFields[1] ELSE "loop"]
                 /\ UNCHANGED panicked
       ELSE /\ started' = FALSE
            /\ status' = ZeroStats
            /\ apc' = [apc EXCEPT !.sup = "loop"]
            /\ UNCHANGED <<startedAt, accum, stopLog, panicked, lastStatus>>
    /\ UNCHANGED <<mx, update, got, variant, vCmdChan, vQueue, vUpdate, vTeardown, wg,
                   vStatus, pc, cur, vStart, vWrite, vCount, connState, prevConnState, pad,
                   vWrapper, vLink, ret, exited, TargetSpeed>>

\* one of the six additions: app.state.<field> += <its diff>
TickAdd ==
    /\ Alive /\ InAccumFields(apc.sup)
    /\ accum' = [accum EXCEPT ![apc.sup] = @ + FieldDiff(apc.sup)]
    /\ apc' = [apc EXCEPT !.sup = IF AfterField(apc.sup) = "done"
                                  THEN "loop" ELSE AfterField(apc.sup)]
    /\ UNCHANGED <<drvVars, connState, prevConnState, pad, vWrapper, vLink, ret, exited,
                   started, status, startedAt, TargetSpeed, stopLog>>

\* case <-app.mStop.ClickedCh: the Send and onBeltStop of a started session
\* come first, the assignments follow
StopClickEntry ==
    /\ Alive /\ apc.ui = "idle"
    /\ MoreSessionEvents
    /\ started \/ accum.timeAccumTotal # 0
    /\ nIntents' = nIntents + 1
    /\ apc' = [apc EXCEPT !.ui = IF started THEN "stop_send" ELSE "stop_reset"]
    /\ UNCHANGED <<vMutex, variant, vCmdChan, vQueue, vUpdate, vTeardown, wg, vStatus, pc, cur,
                   panicked, vStart, vWrite, nPolls, nNotifs, nDiscCalls, connState,
                   prevConnState, pad, vWrapper, vLink, ret, exited, vSession,
                   TargetSpeed, stopLog>>

\* one assignment of the Stop branch: app.state.startedAt = time.Time{}, then
\* app.state.<field> = 0 for the six accumulators
StopAssign ==
    /\ Alive /\ (apc.ui = "stop_reset" \/ InAccumFields(apc.ui))
    /\ IF apc.ui = "stop_reset"
       THEN /\ startedAt' = 0
            /\ apc' = [apc EXCEPT !.ui = AccumFields[1]]
            /\ UNCHANGED accum
       ELSE /\ accum' = [accum EXCEPT ![apc.ui] = 0]
            /\ apc' = [apc EXCEPT !.ui = IF AfterField(apc.ui) = "done"
                                         THEN "idle" ELSE AfterField(apc.ui)]
            /\ UNCHANGED startedAt
    /\ UNCHANGED <<drvVars, connState, prevConnState, pad, vWrapper, vLink, ret, exited,
                   started, status, TargetSpeed, stopLog>>

\* The session of SpecSession with the tick and the Stop branch taken apart.
\* The command processor and the write loop never touch app.state: their
\* steps are left to SpecSession, and the intents stay on the command channel.
NextAccum ==
    \/ InitLoop
    \/ InitCheckReady
    \/ InitSetReady
    \/ TickSync
    \/ TickAdd
    \/ StartPauseClick
    \/ StopClickEntry
    \/ ClickSend
    \/ ClickBeltStop
    \/ StopAssign
    \/ NotifySession
    \/ processUpdatesRecv

SpecAccum == InitSession /\ [][NextAccum]_vars

\* neither goroutine stands between two of its statements on the accumulators
BetweenBlocks == ~InAccumFields(apc.sup) /\ apc.ui \in {"idle", "start_send", "pause_send",
                                                        "pause_stop", "stop_send", "stop_stop"}

\* C34: whenever the main loop is outside its additions and the click handler
\* outside its Stop assignments, no since-start accumulator is above its
\* lifetime counterpart, a Stop click running alongside a tick included.
C34_SinceStartWithinLifetime ==
    BetweenBlocks => NotBelow(Lifetime(accum), SinceStart(accum))
\* ============================================ a Start that cannot finish

\* the processor runs one of the steps of a Start that come before its
\* ChangeSpeed, for a target speed that ChangeSpeed will refuse
RefusedStartStep ==
    /\ cur.cmds.type = "CmdStart" /\ ~ValidSpeed(cur.cmds.Speed)
    /\ pc.cmds \in {"ChangeMode", "StartBelt", "WaitCmd"}
    /\ pc'.cmds # pc.cmds

\* C35: a Start intent whose target speed is outside [0, 6] km/h puts none of
\* the entries of the start sequence (mode change, start belt, wait) on the
\* command queue.
C35_StartAllOrNothing == [][ RefusedStartStep => enqLog' = enqLog ]_vars
====
